---- MODULE Spec2Model ----
(***************************************************************************)
(* State-machine model of mangadlmao's MangaDex downloader:                *)
(*   MangaDex._request          (rate limited request wrapper)             *)
(*   MangaDex.at_home_download_page, MangaDex.download_chapter             *)
(*   MangaDex.at_home_report    (telemetry and its failure counter)        *)
(*   MangaDex.download_manga    (sync policy, numbering inference, commit) *)
(*   cbz.generate_comic_info, cbz.create_cbz  (manifest, archive writer)   *)
(*   download_chapter of WeebCentral, MangaSee and MangaPlus               *)
(*   mangadlmao.main            (the loop over the configured entries)     *)
(* Chapter numbers are kept in tenths (the chapter "2" is 20, the guessed  *)
(* "2.1" is 21); timestamps are small integers.                            *)
(***************************************************************************)
EXTENDS Integers, Sequences, FiniteSets, TLC

\* ------------------------------------------------------------------ bounds
MaxPages == 2
MaxChapters == 2
MaxTime == 2
NumCallers == 2
MaxClock == 6
MaxCalls == 1
MaxSeqCalls == 3
MaxSeqClock == 9
MaxNumList == 4
MaxRuns == 2
MaxReportPages == 2
MaxLatchPages == 3
MaxManifest == 2
MaxEntries == 2
\* MangaDex.__init__(max_workers): the size of the page-fetch thread pool
max_workers == 2

\* -------------------------------------------------------- program constants
\* range(3) of download_chapter
MaxAttempts == 3
\* a["chapter"] is None
NoNumber == -1
\* a["chapter"] is a string float() rejects (ValueError)
NotANumber == -2
\* since == "auto"
SinceAuto == -1
\* the offsets of the numbering inference, in tenths: 0.1, 0.9 and 0.1 * distance
MinOffset == 1
MaxOffset == 9
\* the first number, in tenths, that "%g" no longer prints exactly
SixDigits == 1000000
\* the rate limits of _request, in units of half a second: 0.5 s and 2 s
GlobalInterval == 1
RouteInterval == 4

\* MangaDex.MAX_FAILED_REPORTS
MAX_FAILED_REPORTS == 3

\* the wall-clock time of this run: later than every chapter's updatedAt
Now == MaxTime + 1

Max(a, b) == IF a >= b THEN a ELSE b
Min(a, b) == IF a <= b THEN a ELSE b

Range(s) == {s[i] : i \in DOMAIN s}

VARIABLES
    \* ---- inputs of download_manga
    chapters,       \* the feed: a sequence of chapter records, createdAt ascending
    since,          \* the `since` argument: SinceAuto or a timestamp (0 = None)
    from_chapter,   \* the `from_chapter` argument in tenths (0 = None)
    exclude,        \* the `exclude` argument: a set of names and ids
    net,            \* the outcomes the network produces for a page fetch
    crossDevice,    \* the staging directory and dest_dir are on different volumes
    source,         \* the API class whose download_chapter runs
    mirror,         \* the host of the page urls: MangaDex's own or a MangaDex@Home node
    report_net,     \* the outcomes the network produces for a report
    \* ---- download_manga
    pc,             \* position of the main thread
    since_dt,       \* the cutoff computed from `since`
    index,          \* index of the chapter being processed (1-based)
    chapter_number, \* the number of the chapter being processed, after inference
    dest_dir,       \* destination directory: filename -> file
    length,         \* the length announced to the progress callback
    progress,       \* the sum of the progress updates
    run,            \* the number of this download_manga call on dest_dir
    unlinked,       \* history: the file names the duplicate cleanup deleted
    dest_before,    \* history: dest_dir when the chapter's download began
    attempted,      \* history: the list positions download_chapter was called for
    ended,          \* history: how download_manga ended for the entries before
    \* ---- download_chapter
    base_url,       \* the mirror in use, named by the resolution that returned it
    chapter_hash,   \* the chapter hash in use, named by the resolution that returned it
    pages,          \* the page list of the current attempt
    attempts,       \* _attempts
    queue,          \* submitted page fetches no worker has picked up yet
    inflight,       \* page fetches running in a worker thread
    failed_pages,   \* failed_pages of the current attempt
    tmpdir,         \* the staging directory: filename -> content; NoDir when absent
    \* ---- history (what an observer of the run records)
    resolutions,    \* number of at_home_chapter requests made for this chapter
    chapter_pages,  \* the page list of the first resolution
    log,            \* one record per fetch attempt of this chapter
    results,        \* one record per finished page fetch of this chapter
    raised,         \* the exception raised in download_chapter or in the
                    \* caller's block, "" when none
    \* ---- _request
    clock,          \* time.monotonic()
    last_requests,  \* self.last_requests: route key -> time
    rpc,            \* position of each caller of _request
    wake,           \* the time each caller's sleep ends
    issued,         \* the requests issued: records [caller, route, at]
    \* ---- numbering inference on its own
    numbers,        \* the number assigned to each chapter of the list so far
    \* ---- at_home_download_page and at_home_report, per worker thread
    failed_reports, \* self.failed_reports
    report_lock,    \* the worker holding self.report_lock, 0 when free
    workers,        \* each worker's position and local variables
    returned,       \* history: page -> outcome, report and value of its fetch
    ledger,         \* history: failed_reports at the start plus every step applied
    \* ---- create_cbz called on its own
    comic_info,     \* the comic_info argument: a sequence of <<key, value>>
    document,       \* the text written to ComicInfo.xml, as its elements
    listed,         \* `files`: the regular files iterdir() returned, in its order
    written         \* history: the names zf.write put into temp.cbz, in order

dlvars == <<base_url, chapter_hash, pages, attempts, queue, inflight, failed_pages, tmpdir,
            resolutions, chapter_pages, log, results, raised>>
mangavars == <<chapters, since, from_chapter, exclude, net, crossDevice, source, mirror,
               report_net, pc,
               since_dt, index, chapter_number, dest_dir, length, progress, run,
               unlinked, dest_before, attempted, ended>>
ratevars == <<clock, last_requests, rpc, wake, issued>>
reportvars == <<failed_reports, report_lock, workers, returned, ledger>>
cbzvars == <<comic_info, document, listed, written>>
vars == <<mangavars, dlvars, ratevars, numbers, reportvars, cbzvars>>

\* --------------------------------------------------------------- telemetry
\* line 196: a url with "mangadex.org" in it is not reported
OwnHost == "uploads.mangadex.org"
AtHomeNode == "node.mangadex.network"

\* how a report can end:
\*   ok       requests.post returns a response with r.ok
\*   status   requests.post returns a response with a non-success status
\*   timeout  requests.post raises RequestException (timeout, refused)
ReportOutcomes == {"ok", "status", "timeout"}

\* a worker thread of the pool between two calls
IdleWorker == [at |-> "idle", job |-> <<>>, o |-> "", rep |-> "", seen |-> 0, rr |-> ""]

\* ------------------------------------------------------------ chapter feed
Relationship(t, i, n) == [type |-> t, id |-> i, name |-> n]

\* one entry of the /manga/{id}/feed response, with the page count the
\* /at-home/server/ endpoint reports for it
ChapterRef(i, num, upd, ext, rels, np) ==
    [id |-> i, chapter |-> num, updatedAt |-> upd, externalUrl |-> ext,
     relationships |-> rels, npages |-> np]

\* str.casefold() on the names and ids used here
casefold(s) ==
    CASE s = "Alpha" -> "alpha"
      [] s = "ALPHA" -> "alpha"
      [] s = "G1" -> "g1"
      [] s = "Bob" -> "bob"
      [] s = "BOB" -> "bob"
      [] OTHER -> s

\* ------------------------------------------------------ numbering inference
\* the nearest chapter before position i that carries a chapter number
\* (0 when there is none): the loop range(index - 1, -1, -1)
PreviousNumbered(chs, i) ==
    LET S == {j \in 1..(i - 1) : chs[j].chapter # NoNumber}
    IN  IF S = {} THEN 0 ELSE CHOOSE j \in S : \A k \in S : k <= j

no_following(chs, i) == 0

\* the nearest chapter after position i that carries a chapter number
\* (0 when there is none): the loop range(index + 1, len(chapters))
FollowingNumbered(chs, i) ==
    LET S == {j \in (i + 1)..Len(chs) : chs[j].chapter # NoNumber}
    IN  IF S = {} THEN 0 ELSE CHOOSE j \in S : \A k \in S : j <= k

\* distance = index - i for the chapter found (negative for a following one)
GuessDistance(chs, i) ==
    IF PreviousNumbered(chs, i) # 0 THEN i - PreviousNumbered(chs, i)
    ELSE IF FollowingNumbered(chs, i) # 0 THEN i - FollowingNumbered(chs, i)
    ELSE 0

\* offset = min(0.9, max(0.1, 0.1 * distance)), in tenths
GuessOffset(distance) == Min(MaxOffset, Max(MinOffset, distance))

\* f"{float(chapter_number) + offset:g}": the sum, in tenths, printed with the
\* six significant digits that hold every number below 100000
FormatG(tenths) ==
    IF tenths < SixDigits THEN tenths ELSE ((tenths + 5) \div 10) * 10

\* the number download_manga uses for chapter i: its own when it has one,
\* else the neighbour's plus the offset, the neighbour's unchanged when float()
\* rejects it, NoNumber when no chapter of the list has a number
GuessNumber(chs, i) ==
    IF chs[i].chapter # NoNumber THEN chs[i].chapter
    ELSE LET j == IF PreviousNumbered(chs, i) # 0 THEN PreviousNumbered(chs, i)
                  ELSE FollowingNumbered(chs, i)
         IN  IF j = 0 THEN NoNumber
             ELSE IF chs[j].chapter = NotANumber THEN NotANumber
             ELSE FormatG(chs[j].chapter + GuessOffset(GuessDistance(chs, i)))

\* -------------------------------------------------------------- file model
\* a staged file is named by its zero-padded prefix and the page's name
StagedName(prefix, page) == <<prefix, page>>

NoFiles == <<>>

\* the staging directory before TemporaryDirectory() and after its cleanup
NoDir == [exists |-> FALSE, files |-> NoFiles, info |-> FALSE, temp |-> <<>>]
MissingDir == [exists |-> FALSE, files |-> <<>>, info |-> FALSE, temp |-> <<>>]
EmptyDir == [exists |-> TRUE, files |-> NoFiles, info |-> FALSE, temp |-> <<>>]

\* a zip file: whether its central directory was written, whether it holds
\* ComicInfo.xml, and its page entries (name -> content)
Archive(complete, info, entries) ==
    [complete |-> complete, info |-> info, entries |-> entries]

\* the archive a run that fetched every page left for a chapter
PriorArchive(ch) ==
    Archive(TRUE, TRUE, [n \in {StagedName(i, i) : i \in 1..ch.npages} |-> "page"])

\* f"{number} - {translator} {chapter_id} {created}.cbz": translator and
\* created are fixed by the chapter id
Filename(number, id) == <<number, id>>

\* utils.most_recent_modified over *.cbz, 0 for None
most_recent_modified(dir) ==
    IF DOMAIN dir = {} THEN 0
    ELSE LET M == {dir[f].mtime : f \in DOMAIN dir}
         IN  CHOOSE m \in M : \A k \in M : k <= m

\* ----------------------------------------------------------- download_manga
skip_excluded_groups(ch) ==
    \E r \in ch.relationships :
        /\ r.type = "scanlation_group"
        /\ \E x \in {casefold(e) : e \in exclude} :
               x \in {casefold(r.name), casefold(r.id)}

\* lines 361-387: a scanlation_group or user relationship whose casefolded
\* name or id is in the casefolded exclude list
skip_excluded(ch) ==
    \E r \in ch.relationships :
        /\ r.type \in {"scanlation_group", "user"}
        /\ \E x \in {casefold(e) : e \in exclude} :
               x \in {casefold(r.name), casefold(r.id)}

skip_since_inclusive(ch) == since_dt > ch.updatedAt

\* line 396: since_dt >= updated
skip_since(ch) == since_dt >= ch.updatedAt

\* line 452: from_chapter is not None and float(chapter_number) < from_chapter
\* (ValueError: not skipped); from_chapter 0 stands for None
skip_from(number) ==
    /\ from_chapter # 0
    /\ number # NotANumber
    /\ number < from_chapter

skip_downloaded_if_newer(ch, number) ==
    /\ Filename(number, ch.id) \in DOMAIN dest_dir
    /\ dest_dir[Filename(number, ch.id)].mtime > ch.updatedAt

\* line 485: filepath.exists() and filepath.stat().st_mtime >= updated
skip_downloaded(ch, number) ==
    /\ Filename(number, ch.id) \in DOMAIN dest_dir
    /\ dest_dir[Filename(number, ch.id)].mtime >= ch.updatedAt

\* what the loop body decides for chapter i, in the order of the code
Decision(i) ==
    LET ch == chapters[i]
        number == GuessNumber(chapters, i)
    IN  IF skip_excluded(ch) THEN "excluded"
        ELSE IF skip_since(ch) THEN "since"
        ELSE IF ch.externalUrl THEN "external"
        ELSE IF number = NoNumber THEN "numberless"
        ELSE IF skip_from(number) THEN "from"
        ELSE IF skip_downloaded(ch, number) THEN "downloaded"
        ELSE "download"

NextPc_loop == "loop"

\* the position after chapter `index` is finished: the next chapter or the end
NextPc == IF index < Len(chapters) THEN "loop" ELSE "done"

filepath == Filename(chapter_number, chapters[index].id)

\* lines 321-348: the cutoff, the feed and the length announced
Start ==
    /\ pc = "start"
    /\ since_dt' = IF since = SinceAuto THEN most_recent_modified(dest_dir) ELSE since
    /\ length' = Len(chapters)
    /\ index' = 1
    /\ pc' = "loop"
    /\ UNCHANGED <<chapters, since, from_chapter, exclude, net, crossDevice, source,
                   mirror, report_net, chapter_number, dest_dir, progress, run, unlinked,
                   dest_before, attempted, ended>>
    /\ UNCHANGED <<dlvars, ratevars, numbers, cbzvars, reportvars>>

inputs == <<chapters, since, from_chapter, exclude, net, crossDevice, source, mirror,
            report_net>>

\* ---------------------------------------------------------- download_chapter
\* enumerate(pages): the fetches submitted for a page list, prefix index + 1
Submit(ps) == [k \in 1..Len(ps) |-> [page |-> ps[k], prefix |-> k]]

\* line 263: url_prefix = f"{base_url}/data/{chapter_hash}/", as the pair of
\* the resolutions its two parts come from
url_prefix == <<base_url, chapter_hash>>

\* url_prefix and page list of one attempt, as an observer records them
AttemptRecord(target, ps) == [target |-> target, submitted |-> Range(ps)]

\* how one page fetch can end:
\*   ok      2xx response, the body streamed to the file
\*   status  a response with a non-success status, its body streamed to the file
\*   noconn  requests.get raises RequestException before the file is opened
\*   broken  iter_content raises RequestException after the file was opened
\*   raise   open() raises OSError: an exception that is no RequestException
Outcomes == {"ok", "status", "noconn", "broken", "raise"}

\* lines 170-183: the value at_home_download_page returns ("raise": it raises)
page_returns(o) ==
    CASE o \in {"ok", "status"} -> "True"
      [] o \in {"noconn", "broken"} -> "False"
      [] OTHER -> "raise"

\* lines 172-175: the file the fetch leaves at tmpdir/<prefix>-<name>
page_file(files, job, o) ==
    LET name == StagedName(job.prefix, job.page)
    IN  CASE o = "ok" -> (name :> "page") @@ files
          [] o = "status" -> (name :> "errbody") @@ files
          [] o = "broken" -> (name :> "partial") @@ files
          [] OTHER -> files

future_failed_unless_raised(o) == page_returns(o) = "False"

\* lines 284-289: fr = future.result(), False when the future raised
future_failed(o) == page_returns(o) # "True"

next_pages_all(ps, failed) == ps

\* line 298: pages = failed_pages
next_pages(ps, failed) == failed

\* lines 357-488, a chapter the loop skips: one progress update, next chapter
SkipChapter ==
    /\ pc = "loop"
    /\ Decision(index) # "download"
    /\ progress' = progress + 1
    /\ index' = IF index < Len(chapters) THEN index + 1 ELSE index
    /\ pc' = NextPc
    /\ UNCHANGED <<inputs, run, unlinked, dest_before, attempted, ended, since_dt, chapter_number, dest_dir, length>>
    /\ UNCHANGED <<dlvars, ratevars, numbers, cbzvars, reportvars>>

\* lines 412-490, a chapter the loop admits: its number and file name are
\* fixed and download_chapter is entered
AdmitChapter ==
    /\ pc = "loop"
    /\ Decision(index) = "download"
    /\ chapter_number' = GuessNumber(chapters, index)
    /\ pc' = "resolve"
    /\ base_url' = 0
    /\ chapter_hash' = 0
    /\ pages' = <<>>
    /\ attempts' = 0
    /\ queue' = <<>>
    /\ inflight' = {}
    /\ failed_pages' = <<>>
    /\ tmpdir' = NoDir
    /\ resolutions' = 0
    /\ chapter_pages' = <<>>
    /\ log' = <<>>
    /\ results' = {}
    /\ raised' = ""
    /\ dest_before' = dest_dir
    /\ attempted' = Append(attempted, index)
    /\ UNCHANGED ended
    /\ UNCHANGED <<inputs, run, unlinked, since_dt, index, dest_dir, length, progress>>
    /\ UNCHANGED <<ratevars, numbers, cbzvars, reportvars>>

create_cbz_error_caught == "RequestException"

\* what create_cbz and os.utime raise when the file system fails: an OSError,
\* which the except clause of lines 496-503 does not catch
create_cbz_error == "OSError"

Abandon_without_progress(e) ==
    /\ tmpdir' = NoDir
    /\ raised' = e
    /\ UNCHANGED progress
    /\ pc' = "done"

Abandon_keeping_tmpdir(e) ==
    /\ UNCHANGED tmpdir
    /\ raised' = e
    /\ progress' = progress + 1
    /\ pc' = "done"

\* lines 496-503 and 512-513: the exception e leaves the with block, the
\* staging directory is removed, the progress is updated and download_manga
\* returns (RetryException, RequestException) or lets e propagate (others)
Abandon(e) ==
    /\ tmpdir' = NoDir
    /\ raised' = e
    /\ progress' = progress + 1
    /\ pc' = "done"

\* lines 248-259: the first at_home_chapter request, the staging directory
\* and the submissions of the first attempt
Resolve ==
    /\ pc = "resolve"
    /\ resolutions' = resolutions + 1
    /\ \E ok \in BOOLEAN :
        IF ok
        THEN LET ps == [k \in 1..chapters[index].npages |-> k]
             IN  /\ base_url' = resolutions'
                 /\ chapter_hash' = resolutions'
                 /\ pages' = ps
                 /\ chapter_pages' = ps
                 /\ tmpdir' = EmptyDir
                 /\ queue' = Submit(ps)
                 /\ log' = <<AttemptRecord(resolutions', ps)>>
                 /\ pc' = "fetch"
                 /\ UNCHANGED <<raised, progress>>
        ELSE /\ Abandon("RequestException")
             /\ UNCHANGED <<base_url, chapter_hash, pages, chapter_pages, queue, log>>
    /\ UNCHANGED <<inputs, run, unlinked, dest_before, attempted, ended, since_dt, index, chapter_number, dest_dir, length>>
    /\ UNCHANGED <<attempts, inflight, failed_pages, results>>
    /\ UNCHANGED <<ratevars, numbers, cbzvars, reportvars>>

worker_free_always == TRUE

\* lines 266-268, ThreadPoolExecutor(max_workers=self.max_workers): a
\* submitted call starts when fewer than max_workers calls are running
worker_free == Cardinality(inflight) < max_workers

\* a worker of the ThreadPoolExecutor picks up the next submitted fetch
FetchStart ==
    /\ pc = "fetch"
    /\ queue # <<>>
    /\ worker_free
    /\ inflight' = inflight \cup {Head(queue)}
    /\ queue' = Tail(queue)
    /\ UNCHANGED <<mangavars, ratevars, numbers, cbzvars, reportvars>>
    /\ UNCHANGED <<base_url, chapter_hash, pages, attempts, failed_pages, tmpdir,
                   resolutions, chapter_pages, log, results, raised>>

\* lines 162-183 and 282-289: a page fetch ends and the coordinator takes
\* its result from as_completed; the pages are on MangaDex's own host
\* (mirror = OwnHost), for which at_home_report returns at line 197
FetchFinish ==
    /\ pc = "fetch"
    /\ \E job \in inflight, o \in net :
        /\ inflight' = inflight \ {job}
        /\ tmpdir' = [tmpdir EXCEPT !.files = page_file(@, job, o)]
        /\ failed_pages' = IF future_failed(o) THEN Append(failed_pages, job.page)
                           ELSE failed_pages
        /\ results' = results \cup
               {[attempt |-> attempts + 1, target |-> base_url, page |-> job.page,
                 prefix |-> job.prefix, outcome |-> o]}
    /\ UNCHANGED <<mangavars, ratevars, numbers, cbzvars, reportvars>>
    /\ UNCHANGED <<base_url, chapter_hash, pages, attempts, queue, resolutions, chapter_pages,
                   log, raised>>

\* lines 291-301 with no failed page: break, and line 308 yields the directory
AttemptSucceeded ==
    /\ pc = "fetch"
    /\ queue = <<>>
    /\ inflight = {}
    /\ failed_pages = <<>>
    /\ pc' = "yield"
    /\ UNCHANGED <<inputs, run, unlinked, dest_before, attempted, ended, since_dt, index, chapter_number, dest_dir, length, progress>>
    /\ UNCHANGED <<dlvars, ratevars, numbers, cbzvars, reportvars>>

\* lines 291-306 with failed pages: a new at_home_chapter request, the page
\* list replaced by the failed pages, then the next attempt or, when range(3)
\* is exhausted, RetryException
AttemptFailed ==
    /\ pc = "fetch"
    /\ queue = <<>>
    /\ inflight = {}
    /\ failed_pages # <<>>
    /\ resolutions' = resolutions + 1
    /\ \E ok \in BOOLEAN :
        IF ~ok
        THEN /\ Abandon("RequestException")
             /\ UNCHANGED <<base_url, pages, attempts, queue, failed_pages, log>>
        ELSE /\ base_url' = resolutions'
             /\ pages' = next_pages(pages, failed_pages)
             /\ IF attempts + 1 < MaxAttempts
                THEN /\ attempts' = attempts + 1
                     /\ queue' = Submit(pages')
                     /\ failed_pages' = <<>>
                     /\ log' = Append(log, AttemptRecord(resolutions', pages'))
                     /\ UNCHANGED <<tmpdir, raised, progress, pc>>
                ELSE /\ Abandon("RetryException")
                     /\ UNCHANGED <<attempts, queue, failed_pages, log>>
    /\ UNCHANGED <<inputs, run, unlinked, dest_before, attempted, ended, since_dt, index, chapter_number, dest_dir, length>>
    /\ UNCHANGED <<inflight, chapter_hash, chapter_pages, results>>
    /\ UNCHANGED <<ratevars, numbers, cbzvars, reportvars>>

\* ---------------------------------------------------------------- create_cbz
zip_entries_before_info(dir) == Archive(TRUE, FALSE, dir.files)

\* cbz.py lines 36-39: every regular file of the directory, listed before
\* temp.cbz is created, goes into the archive under its own name
zip_entries(dir) == Archive(TRUE, dir.info, dir.files)

\* a file as an observer finds it while its bytes are still being written
Partial(archive) == [archive EXCEPT !.complete = FALSE]

DestFile(archive, mtime) == [mtime |-> mtime, archive |-> archive]

\* cbz.py lines 32-33: ComicInfo.xml is written into the staging directory,
\* or open() or write() raises OSError
WriteComicInfo ==
    /\ pc = "yield"
    /\ \/ /\ tmpdir' = [tmpdir EXCEPT !.info = TRUE]
          /\ pc' = "zip"
          /\ UNCHANGED <<raised, progress>>
       \/ Abandon(create_cbz_error)
    /\ UNCHANGED <<inputs, run, unlinked, dest_before, attempted, ended, since_dt, index, chapter_number, dest_dir,
                   length>>
    /\ UNCHANGED <<base_url, chapter_hash, pages, attempts, queue, inflight, failed_pages,
                   resolutions, chapter_pages, log, results>>
    /\ UNCHANGED <<ratevars, numbers, cbzvars, reportvars>>

\* cbz.py lines 35-37: the files are listed and temp.cbz is opened for
\* writing, or ZipFile() raises OSError
ZipOpen ==
    /\ pc = "zip"
    /\ \/ /\ tmpdir' = [tmpdir EXCEPT !.temp = <<Partial(zip_entries(tmpdir))>>]
          /\ pc' = "zipping"
          /\ UNCHANGED <<raised, progress>>
       \/ Abandon(create_cbz_error)
    /\ UNCHANGED <<inputs, run, unlinked, dest_before, attempted, ended, since_dt, index, chapter_number, dest_dir,
                   length>>
    /\ UNCHANGED <<base_url, chapter_hash, pages, attempts, queue, inflight, failed_pages,
                   resolutions, chapter_pages, log, results>>
    /\ UNCHANGED <<ratevars, numbers, cbzvars, reportvars>>

\* cbz.py lines 38-39: the entries are written and the ZipFile is closed, or
\* a write raises OSError (disk full)
ZipClose ==
    /\ pc = "zipping"
    /\ \/ /\ tmpdir' = [tmpdir EXCEPT !.temp = <<[@[1] EXCEPT !.complete = TRUE]>>]
          /\ pc' = "replace"
          /\ UNCHANGED <<raised, progress>>
       \/ Abandon(create_cbz_error)
    /\ UNCHANGED <<inputs, run, unlinked, dest_before, attempted, ended, since_dt, index, chapter_number, dest_dir,
                   length>>
    /\ UNCHANGED <<base_url, chapter_hash, pages, attempts, queue, inflight, failed_pages,
                   resolutions, chapter_pages, log, results>>
    /\ UNCHANGED <<ratevars, numbers, cbzvars, reportvars>>

\* cbz.py lines 40-46: temp_file.replace(dest_file) renames atomically; across
\* volumes it fails with EXDEV and shutil.move starts copying into dest_file;
\* any other OSError is raised again
Replace ==
    /\ pc = "replace"
    /\ \/ /\ ~crossDevice
          /\ dest_dir' = (filepath :> DestFile(tmpdir.temp[1], Now)) @@ dest_dir
          /\ tmpdir' = [tmpdir EXCEPT !.temp = <<>>]
          /\ pc' = "utime"
          /\ UNCHANGED <<raised, progress>>
       \/ /\ crossDevice
          /\ dest_dir' = (filepath :> DestFile(Partial(tmpdir.temp[1]), Now)) @@ dest_dir
          /\ pc' = "move"
          /\ UNCHANGED <<tmpdir, raised, progress>>
       \/ /\ Abandon(create_cbz_error)
          /\ UNCHANGED dest_dir
    /\ UNCHANGED <<inputs, run, unlinked, dest_before, attempted, ended, since_dt, index, chapter_number, length>>
    /\ UNCHANGED <<base_url, chapter_hash, pages, attempts, queue, inflight, failed_pages,
                   resolutions, chapter_pages, log, results>>
    /\ UNCHANGED <<ratevars, numbers, cbzvars, reportvars>>

\* cbz.py line 44: shutil.move finishes the copy and unlinks temp.cbz, or the
\* copy raises OSError and leaves what it wrote of dest_file
MoveDone ==
    /\ pc = "move"
    /\ \/ /\ dest_dir' = [dest_dir EXCEPT ![filepath] = DestFile(tmpdir.temp[1], Now)]
          /\ tmpdir' = [tmpdir EXCEPT !.temp = <<>>]
          /\ pc' = "utime"
          /\ UNCHANGED <<raised, progress>>
       \/ /\ Abandon(create_cbz_error)
          /\ UNCHANGED dest_dir
    /\ UNCHANGED <<inputs, run, unlinked, dest_before, attempted, ended, since_dt, index, chapter_number, length>>
    /\ UNCHANGED <<base_url, chapter_hash, pages, attempts, queue, inflight, failed_pages,
                   resolutions, chapter_pages, log, results>>
    /\ UNCHANGED <<ratevars, numbers, cbzvars, reportvars>>

os_utime_keep(file, t) == file

\* os.utime(filepath, (t, t)): the file's modified time becomes t
os_utime(file, t) == [file EXCEPT !.mtime = t]

\* mangadex.py lines 492-495: the archive's modified time becomes the
\* chapter's updatedAt, the with block ends and the staging directory goes
Utime ==
    /\ pc = "utime"
    /\ dest_dir' = [dest_dir EXCEPT ![filepath] = os_utime(@, chapters[index].updatedAt)]
    /\ tmpdir' = NoDir
    /\ pc' = "dedupe"
    /\ UNCHANGED <<inputs, run, unlinked, dest_before, attempted, ended, since_dt, index, chapter_number, length, progress>>
    /\ UNCHANGED <<base_url, chapter_hash, pages, attempts, queue, inflight, failed_pages,
                   resolutions, chapter_pages, log, results, raised>>
    /\ UNCHANGED <<ratevars, numbers, cbzvars, reportvars>>

duplicates_any_id(dir, id, keep) == {g \in DOMAIN dir : g # keep}

\* lines 505-506: dest_dir.glob(f"* {chapter_id} *.cbz") without filepath
duplicates(dir, id, keep) == {g \in DOMAIN dir : g[2] = id /\ g # keep}

\* mangadex.py lines 504-513: other archives carrying the chapter id are
\* deleted, the progress is updated and the loop goes on
DeleteDuplicates ==
    /\ pc = "dedupe"
    /\ dest_dir' = [f \in DOMAIN dest_dir \ duplicates(dest_dir, chapters[index].id, filepath)
                        |-> dest_dir[f]]
    /\ unlinked' = unlinked \cup duplicates(dest_dir, chapters[index].id, filepath)
    /\ progress' = progress + 1
    /\ index' = IF index < Len(chapters) THEN index + 1 ELSE index
    /\ pc' = NextPc
    /\ UNCHANGED <<inputs, run, dest_before, attempted, ended, since_dt, chapter_number, length>>
    /\ UNCHANGED <<dlvars, ratevars, numbers, cbzvars, reportvars>>

\* mangadlmao.py: download_manga is called again for the same manga and
\* destination directory, by a later run of the program, after a call that
\* returned without a failed chapter; only the directory carries over
Rerun ==
    /\ pc = "done"
    /\ raised = ""
    /\ run < MaxRuns
    /\ run' = run + 1
    /\ pc' = "start"
    /\ since_dt' = 0
    /\ index' = 1
    /\ chapter_number' = NoNumber
    /\ length' = 0
    /\ progress' = 0
    /\ base_url' = 0
    /\ chapter_hash' = 0
    /\ pages' = <<>>
    /\ attempts' = 0
    /\ queue' = <<>>
    /\ inflight' = {}
    /\ failed_pages' = <<>>
    /\ tmpdir' = NoDir
    /\ resolutions' = 0
    /\ chapter_pages' = <<>>
    /\ log' = <<>>
    /\ results' = {}
    /\ raised' = ""
    /\ unlinked' = {}
    /\ dest_before' = NoFiles
    /\ attempted' = <<>>
    /\ UNCHANGED ended
    /\ UNCHANGED <<inputs, dest_dir>>
    /\ UNCHANGED <<ratevars, numbers, cbzvars, reportvars>>

\* ------------------------------------------------------------ specification
\* the feed entries: per chapter a number or none, an update time and a
\* page count from NP; no external url, no scanlation group
Entries(i, NP) ==
    {ChapterRef(i, num, upd, FALSE, {}, np) :
        num \in {NoNumber, 10 * i}, upd \in 1..MaxTime, np \in NP}

FeedsOf(n, NP) ==
    {f \in [1..n -> UNION {Entries(i, NP) : i \in 1..n}] : \A i \in 1..n : f[i].id = i}

\* the feeds explored: one chapter of up to MaxPages pages, one chapter of
\* more pages than the pool has workers, or up to MaxChapters chapters of one
\* page each
Feeds ==
    FeedsOf(1, 0..MaxPages) \cup FeedsOf(1, {max_workers + 1})
        \cup UNION {FeedsOf(n, {1}) : n \in 2..MaxChapters}

\* the faults explored: one kind of page fault per run for a single chapter
\* of up to MaxPages pages, none for a longer chapter, connection failures
\* for a longer feed
Nets(feed) ==
    IF Len(feed) = 1
    THEN IF feed[1].npages > MaxPages THEN {{"ok"}}
         ELSE {{"ok", o} : o \in Outcomes \ {"ok"}}
    ELSE {{"ok", "noconn"}}

\* the archives earlier runs may have left for the chapters of a feed: at
\* most one, under the chapter's present name or under another number
PriorDirs(feed) ==
    {NoFiles} \cup
    UNION {{Filename(10 * i + d, feed[i].id) :> DestFile(PriorArchive(feed[i]), t) :
               d \in 0..1, t \in 1..MaxTime} : i \in DOMAIN feed}

\* create_cbz has not been called on its own
InitCbzIdle ==
    /\ comic_info = <<>>
    /\ document = <<>>
    /\ listed = <<>>
    /\ written = <<>>

\* MangaDex.__init__: failed_reports = 0 and a free report_lock; no page
\* fetch is running
InitTelemetry ==
    /\ failed_reports = 0
    /\ report_lock = 0
    /\ workers = [w \in 1..max_workers |-> IdleWorker]
    /\ returned = <<>>
    /\ ledger = 0

InitDownload ==
    /\ base_url = 0
    /\ chapter_hash = 0
    /\ pages = <<>>
    /\ attempts = 0
    /\ queue = <<>>
    /\ inflight = {}
    /\ failed_pages = <<>>
    /\ tmpdir = NoDir
    /\ resolutions = 0
    /\ chapter_pages = <<>>
    /\ log = <<>>
    /\ results = {}
    /\ raised = ""

InitRate ==
    /\ last_requests = [k \in {"global", "/at-home/server/"} |-> 0]
    /\ rpc = [c \in 1..NumCallers |-> "idle"]
    /\ wake = [c \in 1..NumCallers |-> 0]
    /\ issued = {}

InitManga ==
    /\ pc = "start"
    /\ since_dt = 0
    /\ index = 1
    /\ chapter_number = NoNumber
    /\ length = 0
    /\ progress = 0
    /\ run = 1
    /\ unlinked = {}
    /\ dest_before = NoFiles
    /\ attempted = <<>>
    /\ ended = <<>>

\* the relationships a chapter of the feed can come with: a scanlation
\* group, a user, both, none, or only the manga it belongs to
RelationshipSets ==
    LET group == Relationship("scanlation_group", "g1", "Alpha")
        user == Relationship("user", "u1", "Bob")
        manga == Relationship("manga", "m1", "Alpha")
    IN  {{}, {group}, {user}, {group, user}, {manga}}

\* the `exclude` arguments explored: names and ids in any case
ExcludeLists == {{}, {"ALPHA"}, {"G1"}, {"BOB"}, {"m1"}, {"zed", "u1"}}

\* the feeds, cutoffs, faults and earlier archives explored without an
\* exclusion list
InitFeed ==
    /\ chapters \in Feeds
    /\ since \in {SinceAuto} \cup 0..(MaxTime - 1)
    /\ exclude = {}
    /\ net \in Nets(chapters)
    /\ crossDevice \in BOOLEAN
    /\ dest_dir \in PriorDirs(chapters)

\* one chapter with relationships and an exclusion list, nothing else in
\* the way of its download
InitExclusion ==
    /\ \E rels \in RelationshipSets : chapters = <<ChapterRef(1, 10, 1, FALSE, rels, 1)>>
    /\ since = 0
    /\ exclude \in ExcludeLists
    /\ net = {"ok"}
    /\ crossDevice = FALSE
    /\ dest_dir = NoFiles

Init ==
    /\ InitFeed \/ InitExclusion
    /\ from_chapter = 0
    /\ source = "MangaDex"
    /\ mirror = OwnHost
    /\ report_net = {}
    /\ InitManga
    /\ InitDownload
    /\ clock = 0
    /\ InitRate
    /\ numbers = <<>>
    /\ InitCbzIdle
    /\ InitTelemetry

Next ==
    \/ Start
    \/ SkipChapter
    \/ AdmitChapter
    \/ Resolve
    \/ FetchStart
    \/ FetchFinish
    \/ AttemptSucceeded
    \/ AttemptFailed
    \/ WriteComicInfo
    \/ ZipOpen
    \/ ZipClose
    \/ Replace
    \/ MoveDone
    \/ Utime
    \/ DeleteDuplicates
    \/ Rerun

Spec == Init /\ [][Next]_vars

\* ------------------------------- WeebCentral, MangaSee, MangaPlus: one chapter
Sources == {"MangaDex", "WeebCentral", "MangaSee", "MangaPlus"}

\* whether the future of a page fetch that ended with outcome o raised:
\*   WeebCentral.download  raise_for_status, no except clause
\*   MangaSee.download     no status check, no except clause
\*   MangaPlus.download_page  returns False for `not r.ok` and RequestException
src_raises(src, o) ==
    CASE src = "WeebCentral" -> o # "ok"
      [] src = "MangaSee" -> o \in {"noconn", "broken", "raise"}
      [] OTHER -> o = "raise"

\* the file the page fetch of a source leaves in the staging directory
src_page_file(src, files, job, o) ==
    LET name == StagedName(job.prefix, job.page)
    IN  CASE o = "ok" -> (name :> "page") @@ files
          [] o = "status" /\ src = "MangaSee" -> (name :> "errbody") @@ files
          [] o = "broken" /\ src \in {"WeebCentral", "MangaSee"} -> (name :> "partial") @@ files
          [] OTHER -> files

\* the exception a raising page fetch ends with
src_exception(o) == IF o = "raise" THEN "OSError" ELSE "RequestException"

executor_idle_nowait == TRUE

\* leaving `with ThreadPoolExecutor(...) as executor`: __exit__ is
\* shutdown(wait=True), which returns when every submitted future has run
executor_idle == queue = <<>> /\ inflight = {}

\* the cutoff of the other sources, 0 standing for None:
\*   mangaplus.py lines 239-240   keeps the chapters with c.datetime >= since
\*   weebcentral.py lines 114-124 skips when since_dt >= chapter.dt
\*   mangasee.py lines 79-82      skips when since >= updated
src_skip_since(src, ch) ==
    /\ since # 0
    /\ IF src = "MangaPlus" THEN ~(ch.updatedAt >= since) ELSE since >= ch.updatedAt

\* download_manga of the source decides on the chapter: dropped by the cutoff
\* or handed to download_chapter (the progress callbacks of these sources
\* are not followed)
SrcAdmit ==
    /\ pc = "src_start"
    /\ pc' = IF src_skip_since(source, chapters[index]) THEN "done" ELSE "src_resolve"
    /\ UNCHANGED <<inputs, run, unlinked, dest_before, attempted, ended, since_dt, index,
                   chapter_number, dest_dir, length, progress>>
    /\ UNCHANGED <<dlvars, ratevars, numbers, cbzvars, reportvars>>

\* the chapter page (WeebCentral, MangaSee) or the viewer data (MangaPlus)
\* is requested, the staging directory made and every page submitted
SrcResolve ==
    /\ pc = "src_resolve"
    /\ \E ok \in BOOLEAN :
        IF ok
        THEN /\ tmpdir' = EmptyDir
             /\ queue' = Submit([k \in 1..chapters[index].npages |-> k])
             /\ pc' = "src_wait"
             /\ UNCHANGED raised
        ELSE /\ tmpdir' = NoDir
             /\ raised' = "RequestException"
             /\ queue' = <<>>
             /\ pc' = "done"
    /\ UNCHANGED <<inputs, run, unlinked, dest_before, attempted, ended, since_dt, index, chapter_number, dest_dir,
                   length, progress>>
    /\ UNCHANGED <<base_url, chapter_hash, pages, attempts, inflight, failed_pages, resolutions,
                   chapter_pages, log, results>>
    /\ UNCHANGED <<ratevars, numbers, cbzvars, reportvars>>

\* a worker of the pool picks up the next submitted fetch, also after
\* concurrent.futures.wait has returned
SrcFetchStart ==
    /\ pc \in {"src_wait", "src_exit"}
    /\ queue # <<>>
    /\ worker_free
    /\ inflight' = inflight \cup {Head(queue)}
    /\ queue' = Tail(queue)
    /\ UNCHANGED <<mangavars, ratevars, numbers, cbzvars, reportvars>>
    /\ UNCHANGED <<base_url, chapter_hash, pages, attempts, failed_pages, tmpdir,
                   resolutions, chapter_pages, log, results, raised>>

\* download / download_page of the source ends in a worker thread
SrcFetchFinish ==
    /\ pc \in {"src_wait", "src_exit"}
    /\ \E job \in inflight, o \in net :
        /\ inflight' = inflight \ {job}
        /\ tmpdir' = [tmpdir EXCEPT !.files = src_page_file(source, @, job, o)]
        /\ results' = results \cup
               {[attempt |-> 1, target |-> 0, page |-> job.page,
                 prefix |-> job.prefix, outcome |-> o]}
    /\ UNCHANGED <<mangavars, ratevars, numbers, cbzvars, reportvars>>
    /\ UNCHANGED <<base_url, chapter_hash, pages, attempts, queue, failed_pages, resolutions,
                   chapter_pages, log, raised>>

\* concurrent.futures.wait(futures, return_when=FIRST_EXCEPTION) returns when
\* a future has raised or all are done; WeebCentral then raises the exception
\* of a done future (lines 202-205), MangaSee and MangaPlus look at none
SrcWaitReturns ==
    /\ pc = "src_wait"
    /\ \/ executor_idle
       \/ \E r \in results : src_raises(source, r.outcome)
    /\ IF source = "WeebCentral" /\ \E r \in results : src_raises(source, r.outcome)
       THEN \E r \in results :
               /\ src_raises(source, r.outcome)
               /\ raised' = src_exception(r.outcome)
       ELSE UNCHANGED raised
    /\ pc' = "src_exit"
    /\ UNCHANGED <<inputs, run, unlinked, dest_before, attempted, ended, since_dt, index, chapter_number, dest_dir,
                   length, progress>>
    /\ UNCHANGED <<ratevars, numbers, cbzvars, reportvars>>
    /\ UNCHANGED <<base_url, chapter_hash, pages, attempts, queue, inflight, failed_pages, tmpdir,
                   resolutions, chapter_pages, log, results>>

\* the executor's with block is left, then either the exception in flight
\* leaves TemporaryDirectory's with block too or the directory is yielded
SrcExecutorExit ==
    /\ pc = "src_exit"
    /\ executor_idle
    /\ IF raised # ""
       THEN /\ tmpdir' = NoDir
            /\ pc' = "done"
       ELSE /\ pc' = "src_yield"
            /\ UNCHANGED tmpdir
    /\ UNCHANGED <<inputs, run, unlinked, dest_before, attempted, ended, since_dt, index, chapter_number, dest_dir,
                   length, progress>>
    /\ UNCHANGED <<base_url, chapter_hash, pages, attempts, queue, inflight, failed_pages,
                   resolutions, chapter_pages, log, results, raised>>
    /\ UNCHANGED <<ratevars, numbers, cbzvars, reportvars>>

\* the modified time the source leaves on the archive: the chapter's time
\* (os.utime in weebcentral.py line 146 and mangasee.py line 106) or, for
\* MangaPlus, which sets none, the time of writing
src_mtime(src, ch) == IF src = "MangaPlus" THEN Now ELSE ch.updatedAt

\* the caller's with block ends and the staging directory is removed:
\* create_cbz has put every staged file and ComicInfo.xml into the archive at
\* filepath, or create_cbz or os.utime has raised
SrcBlockEnd ==
    /\ pc = "src_yield"
    /\ \/ /\ raised' = ""
          /\ dest_dir' = (filepath :> DestFile(zip_entries([tmpdir EXCEPT !.info = TRUE]),
                                               src_mtime(source, chapters[index])))
                              @@ dest_dir
       \/ /\ raised' = "OSError"
          /\ UNCHANGED dest_dir
    /\ tmpdir' = NoDir
    /\ pc' = "done"
    /\ UNCHANGED <<inputs, run, unlinked, dest_before, attempted, ended, since_dt, index, chapter_number,
                   length, progress>>
    /\ UNCHANGED <<base_url, chapter_hash, pages, attempts, queue, inflight, failed_pages,
                   resolutions, chapter_pages, log, results>>
    /\ UNCHANGED <<ratevars, numbers, cbzvars, reportvars>>

\* one chapter handed to download_manga of a source other than MangaDex: of
\* up to MaxPages pages with page faults and no cutoff, or of one page with a
\* cutoff before, at or after the chapter's time
InitOtherSource ==
    /\ \/ /\ chapters \in {f \in FeedsOf(1, 0..MaxPages) :
                                f[1].chapter = 10 /\ f[1].updatedAt = 1}
          /\ since = 0
          /\ net \in Nets(chapters)
       \/ /\ chapters \in {f \in FeedsOf(1, {1}) : f[1].chapter = 10}
          /\ since \in 1..MaxTime
          /\ net = {"ok"}
    /\ from_chapter = 0
    /\ exclude = {}
    /\ crossDevice = FALSE
    /\ source \in Sources \ {"MangaDex"}
    /\ mirror = OwnHost
    /\ report_net = {}
    /\ dest_dir = NoFiles
    /\ pc = "src_start"
    /\ since_dt = 0
    /\ index = 1
    /\ chapter_number = 10
    /\ length = 1
    /\ progress = 0
    /\ run = 1
    /\ unlinked = {}
    /\ dest_before = NoFiles
    /\ attempted = <<>>
    /\ ended = <<>>
    /\ InitDownload
    /\ clock = 0
    /\ InitRate
    /\ numbers = <<>>
    /\ InitCbzIdle
    /\ InitTelemetry

InitSources ==
    \/ Init /\ Len(chapters) = 1
    \/ InitOtherSource

NextSources ==
    \/ Next
    \/ SrcAdmit
    \/ SrcResolve
    \/ SrcFetchStart
    \/ SrcFetchFinish
    \/ SrcWaitReturns
    \/ SrcExecutorExit
    \/ SrcBlockEnd

\* download_chapter of each of the four sources for one chapter
SpecSources == InitSources /\ [][NextSources]_vars

\* ------------------------------ at_home_download_page with at_home_report
Workers == 1..max_workers

\* lines 198-201: if self.failed_reports > self.MAX_FAILED_REPORTS: return True
report_skipped(n) == n > MAX_FAILED_REPORTS

counter_after_no_floor(rep, n) == IF rep = "ok" THEN n - 1 ELSE n + 1

\* lines 228-232 and 240-241: the value a report that tested n stores in
\* failed_reports (rep = "timeout": the except branch)
counter_after(rep, n) == IF rep = "ok" /\ n > 0 THEN n - 1 ELSE n + 1

\* lines 233 and 242: what at_home_report returns after a request
report_returns(rep) == IF rep = "ok" THEN "True" ELSE "False"

fetch_result_unless_report_failed(o, rr) ==
    IF rr = "False" THEN "False" ELSE page_returns(o)

\* lines 176-183: what at_home_download_page returns for the fetch outcome o
\* when at_home_report returned rr: the report's value is dropped
fetch_result(o, rr) == page_returns(o)

lock_free_always(w) == TRUE

\* `with self.report_lock:` can be entered by worker w
lock_free(w) == report_lock = 0

\* a worker of the pool starts at_home_download_page for the next page
PageTake(w) ==
    /\ pc = "fetch"
    /\ workers[w].at = "idle"
    /\ queue # <<>>
    /\ workers' = [workers EXCEPT ![w] = [IdleWorker EXCEPT !.at = "get", !.job = Head(queue)]]
    /\ inflight' = inflight \cup {Head(queue)}
    /\ queue' = Tail(queue)
    /\ UNCHANGED <<base_url, chapter_hash, pages, attempts, failed_pages, tmpdir, resolutions,
                   chapter_pages, log, results, raised>>
    /\ UNCHANGED <<failed_reports, report_lock, returned, ledger>>

\* lines 170-175 and 181: requests.get and the streaming into the file end
\* with outcome o; a RequestException or a complete body leads to a report,
\* another exception leaves the function
PageGet(w) ==
    /\ workers[w].at = "get"
    /\ \E o \in net :
        /\ tmpdir' = [tmpdir EXCEPT !.files = page_file(@, workers[w].job, o)]
        /\ workers' = [workers EXCEPT ![w].o = o,
                                      ![w].at = IF o = "raise" THEN "return" ELSE "report"]
    /\ UNCHANGED <<base_url, chapter_hash, pages, attempts, queue, inflight, failed_pages,
                   resolutions, chapter_pages, log, results, raised>>
    /\ UNCHANGED <<failed_reports, report_lock, returned, ledger>>

\* lines 196-201: no report for a url on MangaDex's own host; else
\* failed_reports is tested under report_lock and the report skipped or made
ReportCheck(w) ==
    /\ workers[w].at = "report"
    /\ IF mirror = OwnHost
       THEN workers' = [workers EXCEPT ![w].rep = "own", ![w].rr = "True",
                                       ![w].at = "return"]
       ELSE /\ lock_free(w)
            /\ workers' = [workers EXCEPT
                   ![w].seen = failed_reports,
                   ![w].rep = IF report_skipped(failed_reports) THEN "skipped" ELSE "",
                   ![w].rr = IF report_skipped(failed_reports) THEN "True" ELSE "",
                   ![w].at = IF report_skipped(failed_reports) THEN "return" ELSE "post"]
    /\ UNCHANGED <<dlvars, failed_reports, report_lock, returned, ledger>>

\* lines 217-227: requests.post to api.mangadex.network/report ends
ReportPost(w) ==
    /\ workers[w].at = "post"
    /\ \E r \in report_net :
        workers' = [workers EXCEPT ![w].rep = r, ![w].at = "acquire"]
    /\ UNCHANGED <<dlvars, failed_reports, report_lock, returned, ledger>>

\* lines 228 and 240: with self.report_lock
ReportAcquire(w) ==
    /\ workers[w].at = "acquire"
    /\ lock_free(w)
    /\ report_lock' = w
    /\ workers' = [workers EXCEPT ![w].at = "locked"]
    /\ UNCHANGED <<dlvars, failed_reports, returned, ledger>>

\* lines 229 and 241: self.failed_reports is read (and tested)
ReportRead(w) ==
    /\ workers[w].at = "locked"
    /\ workers' = [workers EXCEPT ![w].seen = failed_reports, ![w].at = "write"]
    /\ UNCHANGED <<dlvars, failed_reports, report_lock, returned, ledger>>

\* lines 230-233 and 241-242: the new value is stored, the lock released and
\* r.ok or False returned
ReportWrite(w) ==
    /\ workers[w].at = "write"
    /\ failed_reports' = counter_after(workers[w].rep, workers[w].seen)
    /\ ledger' = ledger + (counter_after(workers[w].rep, workers[w].seen) - workers[w].seen)
    /\ report_lock' = IF report_lock = w THEN 0 ELSE report_lock
    /\ workers' = [workers EXCEPT ![w].rr = report_returns(workers[w].rep),
                                  ![w].at = "return"]
    /\ UNCHANGED <<dlvars, returned>>

\* lines 180 and 183: at_home_download_page returns (or its exception leaves)
PageReturn(w) ==
    /\ workers[w].at = "return"
    /\ returned' = (workers[w].job.page :>
                       [outcome |-> workers[w].o, report |-> workers[w].rep,
                        seen |-> workers[w].seen,
                        value |-> fetch_result(workers[w].o, workers[w].rr)]) @@ returned
    /\ inflight' = inflight \ {workers[w].job}
    /\ workers' = [workers EXCEPT ![w] = IdleWorker]
    /\ UNCHANGED <<base_url, chapter_hash, pages, attempts, queue, failed_pages, tmpdir,
                   resolutions, chapter_pages, log, results, raised>>
    /\ UNCHANGED <<failed_reports, report_lock, ledger>>

\* the page faults and the report faults explored, one kind each per run
PageNets == {{"ok", o} : o \in {"noconn", "raise"}}
ReportNets == {{"ok", r} : r \in ReportOutcomes \ {"ok"}}

\* the first attempt of a chapter of MaxReportPages pages has been submitted
\* (the state Resolve leaves), on MangaDex's own host or on a MangaDex@Home
\* node; failed_reports is what the chapters before left: 0, or a value at
\* the threshold
InitReportOf(n, nets) ==
    /\ chapters = <<ChapterRef(1, 10, 1, FALSE, {}, n)>>
    /\ since = 0
    /\ from_chapter = 0
    /\ exclude = {}
    /\ net \in nets
    /\ crossDevice = FALSE
    /\ source = "MangaDex"
    /\ \/ mirror = OwnHost /\ report_net = {} /\ failed_reports = 0
       \/ /\ mirror = AtHomeNode
          /\ report_net \in ReportNets
          /\ failed_reports \in {0, MAX_FAILED_REPORTS}
    /\ dest_dir = NoFiles
    /\ pc = "fetch"
    /\ since_dt = 0
    /\ index = 1
    /\ chapter_number = 10
    /\ length = 1
    /\ progress = 0
    /\ run = 1
    /\ unlinked = {}
    /\ dest_before = NoFiles
    /\ attempted = <<>>
    /\ ended = <<>>
    /\ base_url = 1
    /\ chapter_hash = 1
    /\ pages = [k \in 1..n |-> k]
    /\ attempts = 0
    /\ queue = Submit(pages)
    /\ inflight = {}
    /\ failed_pages = <<>>
    /\ tmpdir = EmptyDir
    /\ resolutions = 1
    /\ chapter_pages = pages
    /\ log = <<AttemptRecord(1, pages)>>
    /\ results = {}
    /\ raised = ""
    /\ clock = 0
    /\ InitRate
    /\ numbers = <<>>
    /\ InitCbzIdle
    /\ report_lock = 0
    /\ workers = [w \in Workers |-> IdleWorker]
    /\ returned = <<>>
    /\ ledger = failed_reports

InitReport == InitReportOf(MaxReportPages, PageNets)

\* the same for a chapter of MaxLatchPages pages on a MangaDex@Home node,
\* with failed_reports at 0 or at the threshold and page fetches that succeed
InitLatch ==
    /\ InitReportOf(MaxLatchPages, {{"ok"}})
    /\ mirror = AtHomeNode

NextReport ==
    \/ \E w \in Workers : PageTake(w) /\ UNCHANGED <<mangavars, ratevars, numbers, cbzvars>>
    \/ \E w \in Workers : PageGet(w) /\ UNCHANGED <<mangavars, ratevars, numbers, cbzvars>>
    \/ \E w \in Workers : ReportCheck(w) /\ UNCHANGED <<mangavars, ratevars, numbers, cbzvars>>
    \/ \E w \in Workers : ReportPost(w) /\ UNCHANGED <<mangavars, ratevars, numbers, cbzvars>>
    \/ \E w \in Workers : ReportAcquire(w) /\ UNCHANGED <<mangavars, ratevars, numbers, cbzvars>>
    \/ \E w \in Workers : ReportRead(w) /\ UNCHANGED <<mangavars, ratevars, numbers, cbzvars>>
    \/ \E w \in Workers : ReportWrite(w) /\ UNCHANGED <<mangavars, ratevars, numbers, cbzvars>>
    \/ \E w \in Workers : PageReturn(w) /\ UNCHANGED <<mangavars, ratevars, numbers, cbzvars>>

\* the worker threads of one attempt, each running at_home_download_page
\* and at_home_report step by step
SpecReport == InitReport /\ [][NextReport]_vars

\* more pages than workers, so that a worker starts a report while the
\* reports of the others are under way
SpecLatch == InitLatch /\ [][NextReport]_vars

\* ------------------------------------------------------------------ _request
Callers == 1..NumCallers

AtHome == "/at-home/server/"

no_sleep(key, interval) == 0

\* max(0.0, self.last_requests.get(key, 0.0) + interval - time.monotonic())
sleep_time(key, interval) == Max(0, last_requests[key] + interval - clock)

\* line 46-48: the caller reads last_requests["global"] and the clock, and
\* starts the sleep computed from them
BeginRequest(c, calls) ==
    /\ rpc[c] = "idle"
    /\ Cardinality({r \in issued : r.caller = c}) < calls
    /\ \E route \in {"", AtHome} :
        rpc' = [rpc EXCEPT ![c] = IF route = AtHome THEN "sleep_route" ELSE "sleep"]
    /\ wake' = [wake EXCEPT ![c] = clock + sleep_time("global", GlobalInterval)]
    /\ UNCHANGED <<clock, last_requests, issued>>

SleepGlobal(c) == BeginRequest(c, MaxCalls)

\* lines 50-54: the first sleep is over; a request to /at-home/server/ reads
\* last_requests[route] and the clock, and starts the second sleep
SleepRoute(c) ==
    /\ rpc[c] = "sleep_route"
    /\ clock >= wake[c]
    /\ rpc' = [rpc EXCEPT ![c] = "sleep_athome"]
    /\ wake' = [wake EXCEPT ![c] = clock + sleep_time(AtHome, RouteInterval)]
    /\ UNCHANGED <<clock, last_requests, issued>>

\* line 58: the last sleep is over and self.s.request is called; it returns
\* a response or raises
Issue(c) ==
    /\ rpc[c] \in {"sleep", "sleep_athome"}
    /\ clock >= wake[c]
    /\ issued' = issued \cup
           {[caller |-> c, route |-> IF rpc[c] = "sleep" THEN "" ELSE AtHome,
             at |-> clock]}
    /\ \E raises \in BOOLEAN :
        rpc' = [rpc EXCEPT ![c] =
                   IF rpc[c] = "sleep"
                   THEN (IF raises THEN "raise" ELSE "request")
                   ELSE (IF raises THEN "raise_athome" ELSE "request_athome")]
    /\ UNCHANGED <<clock, last_requests, wake>>

\* lines 60-63: the response was handled (or the request raised) and the
\* finally block stores the clock under "global" and under the route
Record(c) ==
    /\ rpc[c] \in {"request", "request_athome", "raise", "raise_athome"}
    /\ last_requests' =
           IF rpc[c] \in {"request_athome", "raise_athome"}
           THEN [last_requests EXCEPT !["global"] = clock, ![AtHome] = clock]
           ELSE [last_requests EXCEPT !["global"] = clock]
    /\ rpc' = [rpc EXCEPT ![c] = "idle"]
    /\ UNCHANGED <<clock, wake, issued>>

\* time passes
Advance(limit) ==
    /\ clock < limit
    /\ clock' = clock + 1
    /\ UNCHANGED <<last_requests, rpc, wake, issued>>

Tick == Advance(MaxClock)

InitIdle ==
    /\ chapters = <<>>
    /\ since = 0
    /\ from_chapter = 0
    /\ exclude = {}
    /\ net = {"ok"}
    /\ crossDevice = FALSE
    /\ source = "MangaDex"
    /\ mirror = OwnHost
    /\ report_net = {}
    /\ dest_dir = NoFiles
    /\ pc = "done"
    /\ since_dt = 0
    /\ index = 1
    /\ chapter_number = NoNumber
    /\ length = 0
    /\ progress = 0
    /\ run = 1
    /\ unlinked = {}
    /\ dest_before = NoFiles
    /\ attempted = <<>>
    /\ ended = <<>>
    /\ InitDownload

\* time.monotonic() starts anywhere: at 0 the first request has to sleep,
\* past the route interval it has not
InitRateSpec ==
    /\ InitIdle
    /\ clock \in {0, RouteInterval}
    /\ InitRate
    /\ numbers = <<>>
    /\ InitCbzIdle
    /\ InitTelemetry

NextRate ==
    \/ \E c \in Callers : SleepGlobal(c) /\ UNCHANGED <<mangavars, dlvars, numbers, cbzvars, reportvars>>
    \/ \E c \in Callers : SleepRoute(c) /\ UNCHANGED <<mangavars, dlvars, numbers, cbzvars, reportvars>>
    \/ \E c \in Callers : Issue(c) /\ UNCHANGED <<mangavars, dlvars, numbers, cbzvars, reportvars>>
    \/ \E c \in Callers : Record(c) /\ UNCHANGED <<mangavars, dlvars, numbers, cbzvars, reportvars>>
    \/ Tick /\ UNCHANGED <<mangavars, dlvars, numbers, cbzvars, reportvars>>

\* NumCallers threads calling _request of one MangaDex instance
SpecRate == InitRateSpec /\ [][NextRate]_vars

\* one thread calling _request time after time, as download_manga does
\* between chapters
NextRateSeq ==
    \/ BeginRequest(1, MaxSeqCalls) /\ UNCHANGED <<mangavars, dlvars, numbers, cbzvars, reportvars>>
    \/ SleepRoute(1) /\ UNCHANGED <<mangavars, dlvars, numbers, cbzvars, reportvars>>
    \/ Issue(1) /\ UNCHANGED <<mangavars, dlvars, numbers, cbzvars, reportvars>>
    \/ Record(1) /\ UNCHANGED <<mangavars, dlvars, numbers, cbzvars, reportvars>>
    \/ Advance(MaxSeqClock) /\ UNCHANGED <<mangavars, dlvars, numbers, cbzvars, reportvars>>

SpecRateSeq == InitRateSpec /\ [][NextRateSeq]_vars

\* ------------------------------------------- numbering inference on its own
\* the chapter numbers a feed can carry: none, "1", "1.1", "2", or a string
\* that is no number
FeedNumbers == {NoNumber, NotANumber, 10, 11, 20}

NumberFeeds ==
    UNION {{[i \in 1..n |-> ChapterRef(i, f[i], 1, FALSE, {}, 1)] :
               f \in [1..n -> FeedNumbers]} : n \in 1..MaxNumList}

\* mangadex.py lines 412-437 for the chapter at `index`: its number is
\* inferred and kept, and the loop moves on
InferNumber ==
    /\ index <= Len(chapters)
    /\ numbers' = Append(numbers, GuessNumber(chapters, index))
    /\ index' = index + 1
    /\ UNCHANGED <<inputs, run, unlinked, dest_before, attempted, ended, pc, since_dt, chapter_number, dest_dir, length, progress>>
    /\ UNCHANGED <<dlvars, ratevars, reportvars, cbzvars>>

InitNumbers ==
    /\ chapters \in NumberFeeds
    /\ since = 0
    /\ from_chapter = 0
    /\ exclude = {}
    /\ net = {"ok"}
    /\ crossDevice = FALSE
    /\ source = "MangaDex"
    /\ mirror = OwnHost
    /\ report_net = {}
    /\ dest_dir = NoFiles
    /\ pc = "loop"
    /\ since_dt = 0
    /\ index = 1
    /\ chapter_number = NoNumber
    /\ length = 0
    /\ progress = 0
    /\ run = 1
    /\ unlinked = {}
    /\ dest_before = NoFiles
    /\ attempted = <<>>
    /\ ended = <<>>
    /\ InitDownload
    /\ clock = 0
    /\ InitRate
    /\ numbers = <<>>
    /\ InitCbzIdle
    /\ InitTelemetry

NextNumbers == InferNumber

\* the numbering inference applied to every chapter of every feed of up to
\* MaxNumList chapters over FeedNumbers
SpecNumbers == InitNumbers /\ [][NextNumbers]_vars

\* ------------------------------------------------------- cbz.py on its own
\* a value of the manifest: None, or a string as the sequence of its characters
None == {}
Str(chars) == {chars}

\* str(value) of a value that is not None
str(value) == CHOOSE chars \in value : TRUE

\* str.upper() of one character, over the characters the keys begin with
upper(c) ==
    CASE c = "c" -> "C"
      [] c = "w" -> "W"
      [] OTHER -> c

\* cbz.py line 13: key[0].upper() + key[1:]
capitalize(key) == <<upper(Head(key))>> \o Tail(key)

\* xml.sax.saxutils.escape of one character
escape_char(c) ==
    CASE c = "&" -> <<"&", "a", "m", "p", ";">>
      [] c = "<" -> <<"&", "l", "t", ";">>
      [] c = ">" -> <<"&", "g", "t", ";">>
      [] OTHER -> <<c>>

\* xml.sax.saxutils.escape
RECURSIVE escape(_)
escape(chars) ==
    IF chars = <<>> THEN <<>> ELSE escape_char(Head(chars)) \o escape(Tail(chars))

\* one line "\t<key>text</key>\n" of the document
Element(key, text) == [key |-> key, text |-> text]

\* cbz.py line 12: `if value is not None`
emits(value) == value # None

\* cbz.py lines 9-16, the elements between <ComicInfo> and </ComicInfo>
RECURSIVE generate_comic_info(_)
generate_comic_info(info) ==
    IF info = <<>> THEN <<>>
    ELSE LET key == Head(info)[1]
             value == Head(info)[2]
         IN  (IF emits(value)
              THEN <<Element(capitalize(key), escape(str(value)))>>
              ELSE <<>>) \o generate_comic_info(Tail(info))

\* names in the staging directory next to the page files
InfoName == <<"ComicInfo.xml">>
TempName == <<"temp.cbz">>

\* a page file's name, f"{page_number:03}-{name}", is a pair
IsPageName(n) == Len(n) = 2

\* cbz.py line 36: the regular files of src_dir
regular_files(dir) ==
    DOMAIN dir.files
        \cup (IF dir.info THEN {InfoName} ELSE {})
        \cup (IF dir.temp # <<>> THEN {TempName} ELSE {})

\* the orders in which iterdir() can return a set of names
Listings(names) ==
    {l \in [1..Cardinality(names) -> names] : Range(l) = names}

\* the zip file holding the names written so far
Zipped(names, dir, complete) ==
    Archive(complete, InfoName \in Range(names),
            [n \in Range(names) \cap DOMAIN dir.files |-> dir.files[n]])

\* cbz.py lines 32-33: ComicInfo.xml is opened for writing and the generated
\* document is written to it
CbzWriteInfo ==
    /\ pc = "cbz_info"
    /\ document' = generate_comic_info(comic_info)
    /\ tmpdir' = [tmpdir EXCEPT !.info = TRUE]
    /\ pc' = "cbz_list"
    /\ UNCHANGED <<inputs, run, unlinked, dest_before, attempted, ended, since_dt, index, chapter_number, dest_dir,
                   length, progress>>
    /\ UNCHANGED <<base_url, chapter_hash, pages, attempts, queue, inflight, failed_pages,
                   resolutions, chapter_pages, log, results, raised>>
    /\ UNCHANGED <<ratevars, numbers, reportvars, comic_info, listed, written>>

\* cbz.py lines 35-36: the regular files are listed, in the order the file
\* system returns them
CbzList ==
    /\ pc = "cbz_list"
    /\ listed' \in Listings(regular_files(tmpdir))
    /\ pc' = "cbz_open"
    /\ UNCHANGED <<inputs, run, unlinked, dest_before, attempted, ended, since_dt, index, chapter_number, dest_dir,
                   length, progress>>
    /\ UNCHANGED <<dlvars, ratevars, numbers, reportvars, comic_info, document, written>>

\* cbz.py line 37: temp.cbz is created
CbzOpen ==
    /\ pc = "cbz_open"
    /\ written' = <<>>
    /\ tmpdir' = [tmpdir EXCEPT !.temp = <<Zipped(<<>>, tmpdir, FALSE)>>]
    /\ pc' = "cbz_zip"
    /\ UNCHANGED <<inputs, run, unlinked, dest_before, attempted, ended, since_dt, index, chapter_number, dest_dir,
                   length, progress>>
    /\ UNCHANGED <<base_url, chapter_hash, pages, attempts, queue, inflight, failed_pages,
                   resolutions, chapter_pages, log, results, raised>>
    /\ UNCHANGED <<ratevars, numbers, reportvars, comic_info, document, listed>>

\* cbz.py lines 38-39: zf.write(file, file.name) for the next file of the list
CbzWrite ==
    /\ pc = "cbz_zip"
    /\ Len(written) < Len(listed)
    /\ written' = Append(written, listed[Len(written) + 1])
    /\ tmpdir' = [tmpdir EXCEPT !.temp = <<Zipped(written', tmpdir, FALSE)>>]
    /\ UNCHANGED <<inputs, run, unlinked, dest_before, attempted, ended, pc, since_dt, index, chapter_number, dest_dir,
                   length, progress>>
    /\ UNCHANGED <<base_url, chapter_hash, pages, attempts, queue, inflight, failed_pages,
                   resolutions, chapter_pages, log, results, raised>>
    /\ UNCHANGED <<ratevars, numbers, reportvars, comic_info, document, listed>>

\* cbz.py line 37, the end of the with block: the ZipFile is closed
CbzClose ==
    /\ pc = "cbz_zip"
    /\ Len(written) = Len(listed)
    /\ tmpdir' = [tmpdir EXCEPT !.temp = <<Zipped(written, tmpdir, TRUE)>>]
    /\ pc' = "cbz_replace"
    /\ UNCHANGED <<inputs, run, unlinked, dest_before, attempted, ended, since_dt, index, chapter_number, dest_dir,
                   length, progress>>
    /\ UNCHANGED <<base_url, chapter_hash, pages, attempts, queue, inflight, failed_pages,
                   resolutions, chapter_pages, log, results, raised>>
    /\ UNCHANGED <<ratevars, numbers, reportvars, cbzvars>>

temp_after_copy(temp) == temp

\* temp_file.replace(dest_file) and shutil.move(temp_file, dest_file): the
\* file is no longer in the staging directory
temp_after_move(temp) == <<>>

\* cbz.py lines 40-44: temp.cbz is renamed to dest_file, or, across volumes,
\* shutil.move starts copying it into dest_file
CbzReplace ==
    /\ pc = "cbz_replace"
    /\ \/ /\ ~crossDevice
          /\ dest_dir' = (filepath :> DestFile(tmpdir.temp[1], Now)) @@ dest_dir
          /\ tmpdir' = [tmpdir EXCEPT !.temp = temp_after_move(@)]
          /\ pc' = "cbz_done"
       \/ /\ crossDevice
          /\ dest_dir' = (filepath :> DestFile(Partial(tmpdir.temp[1]), Now)) @@ dest_dir
          /\ pc' = "cbz_move"
          /\ UNCHANGED tmpdir
    /\ UNCHANGED <<inputs, run, unlinked, dest_before, attempted, ended, since_dt, index, chapter_number, length, progress>>
    /\ UNCHANGED <<base_url, chapter_hash, pages, attempts, queue, inflight, failed_pages,
                   resolutions, chapter_pages, log, results, raised>>
    /\ UNCHANGED <<ratevars, numbers, reportvars, cbzvars>>

\* cbz.py line 44: shutil.move finishes the copy and unlinks temp.cbz
CbzMoveDone ==
    /\ pc = "cbz_move"
    /\ dest_dir' = [dest_dir EXCEPT ![filepath] = DestFile(tmpdir.temp[1], Now)]
    /\ tmpdir' = [tmpdir EXCEPT !.temp = temp_after_move(@)]
    /\ pc' = "cbz_done"
    /\ UNCHANGED <<inputs, run, unlinked, dest_before, attempted, ended, since_dt, index, chapter_number, length, progress>>
    /\ UNCHANGED <<base_url, chapter_hash, pages, attempts, queue, inflight, failed_pages,
                   resolutions, chapter_pages, log, results, raised>>
    /\ UNCHANGED <<ratevars, numbers, reportvars, cbzvars>>

\* create_cbz(src_dir, dest_file, comic_info) is called again with the same
\* arguments once the call before it has returned
CbzAgain ==
    /\ pc = "cbz_done"
    /\ run < MaxRuns
    /\ run' = run + 1
    /\ document' = <<>>
    /\ listed' = <<>>
    /\ written' = <<>>
    /\ pc' = "cbz_info"
    /\ UNCHANGED <<inputs, unlinked, dest_before, attempted, ended, since_dt, index, chapter_number, dest_dir,
                   length, progress>>
    /\ UNCHANGED <<dlvars, ratevars, numbers, reportvars, comic_info>>

\* the keys of the manifests explored, as their characters
InfoKeys == {<<"T", "i", "t", "l", "e">>, <<"c", "o", "u", "n", "t">>, <<"w">>}

\* the values: None, the empty string, a plain string, a string to escape
InfoValues == {None, Str(<<>>), Str(<<"a">>), Str(<<"&">>)}

\* the dicts of up to MaxManifest items, in insertion order
Manifests ==
    UNION {{m \in [1..n -> InfoKeys \X InfoValues] :
                \A i, j \in 1..n : m[i][1] = m[j][1] => i = j} : n \in 0..MaxManifest}

\* the staging directories of up to MaxPages page files
StagedDirs ==
    {[EmptyDir EXCEPT !.files = [n \in {StagedName(k, k) : k \in K} |-> "page"]] :
        K \in SUBSET (1..MaxPages)}

\* every manifest with one staged page, and one manifest with every staging
\* directory on the same or on another volume than dest_file
InitCbz ==
    /\ chapters = <<ChapterRef(1, 10, 1, FALSE, {}, MaxPages)>>
    /\ since = 0
    /\ from_chapter = 0
    /\ exclude = {}
    /\ net = {"ok"}
    /\ \/ /\ comic_info \in Manifests
          /\ tmpdir = [EmptyDir EXCEPT !.files = (StagedName(1, 1) :> "page")]
          /\ crossDevice = FALSE
       \/ /\ comic_info = << <<<<"w">>, Str(<<"a">>)>> >>
          /\ tmpdir \in StagedDirs
          /\ crossDevice \in BOOLEAN
    /\ source = "MangaDex"
    /\ mirror = OwnHost
    /\ report_net = {}
    /\ dest_dir = NoFiles
    /\ pc = "cbz_info"
    /\ since_dt = 0
    /\ index = 1
    /\ chapter_number = 10
    /\ length = 0
    /\ progress = 0
    /\ run = 1
    /\ unlinked = {}
    /\ dest_before = NoFiles
    /\ attempted = <<>>
    /\ ended = <<>>
    /\ base_url = 0
    /\ chapter_hash = 0
    /\ pages = <<>>
    /\ attempts = 0
    /\ queue = <<>>
    /\ inflight = {}
    /\ failed_pages = <<>>
    /\ resolutions = 0
    /\ chapter_pages = <<>>
    /\ log = <<>>
    /\ results = {}
    /\ raised = ""
    /\ clock = 0
    /\ InitRate
    /\ numbers = <<>>
    /\ InitTelemetry
    /\ document = <<>>
    /\ listed = <<>>
    /\ written = <<>>

NextCbz ==
    \/ CbzWriteInfo
    \/ CbzList
    \/ CbzOpen
    \/ CbzWrite
    \/ CbzClose
    \/ CbzReplace
    \/ CbzMoveDone
    \/ CbzAgain

\* create_cbz called up to MaxRuns times on one staging directory
SpecCbz == InitCbz /\ [][NextCbz]_vars

\* --------------------------------------------------------- mangadlmao.main
main_catches_request_errors(e) == e \in {"RetryException", "RequestException"}

\* mangadlmao.py lines 252-253, 267-268, 292-293: `except Exception` around
\* each download_manga call catches every exception the model raises
main_catches(e) == TRUE

\* mangadex.py lines 496-503: the exceptions download_manga returns on; any
\* other leaves download_manga
escapes_download_manga(e) == e \notin {"", "RetryException", "RequestException"}

\* mangadlmao.py line 169: the position in cfg["manga"] of the entry being
\* processed
entry == Len(ended) + 1

\* mangadlmao.py lines 169-253: download_manga of the entry has returned, or
\* has raised an exception main catches, and the loop calls download_manga
\* for the next entry of cfg["manga"], a manga with a feed of the same shape
\* and a directory of its own
MainNextEntry ==
    /\ pc = "done"
    /\ entry < MaxEntries
    /\ escapes_download_manga(raised) => main_catches(raised)
    /\ ended' = Append(ended, [raised |-> raised, attempted |-> attempted,
                                length |-> length])
    /\ pc' = "start"
    /\ dest_dir' = NoFiles
    /\ since_dt' = 0
    /\ index' = 1
    /\ chapter_number' = NoNumber
    /\ length' = 0
    /\ progress' = 0
    /\ base_url' = 0
    /\ chapter_hash' = 0
    /\ pages' = <<>>
    /\ attempts' = 0
    /\ queue' = <<>>
    /\ inflight' = {}
    /\ failed_pages' = <<>>
    /\ tmpdir' = NoDir
    /\ resolutions' = 0
    /\ chapter_pages' = <<>>
    /\ log' = <<>>
    /\ results' = {}
    /\ raised' = ""
    /\ unlinked' = {}
    /\ dest_before' = NoFiles
    /\ attempted' = <<>>
    /\ UNCHANGED <<inputs, run>>
    /\ UNCHANGED <<ratevars, numbers, cbzvars, reportvars>>

\* MaxEntries MangaDex entries of MaxChapters numbered one-page chapters
\* each, all before or all after the cutoff, with connection failures, on
\* one volume or two
InitMain ==
    /\ chapters \in FeedsOf(MaxChapters, {1})
    /\ \A i \in DOMAIN chapters : chapters[i].chapter # NoNumber /\ chapters[i].updatedAt = 1
    /\ since \in 0..1
    /\ exclude = {}
    /\ net = {"ok", "noconn"}
    /\ crossDevice \in BOOLEAN
    /\ dest_dir = NoFiles
    /\ from_chapter = 0
    /\ source = "MangaDex"
    /\ mirror = OwnHost
    /\ report_net = {}
    /\ InitManga
    /\ InitDownload
    /\ clock = 0
    /\ InitRate
    /\ numbers = <<>>
    /\ InitCbzIdle
    /\ InitTelemetry

NextMain ==
    \/ Start
    \/ SkipChapter
    \/ AdmitChapter
    \/ Resolve
    \/ FetchStart
    \/ FetchFinish
    \/ AttemptSucceeded
    \/ AttemptFailed
    \/ WriteComicInfo
    \/ ZipOpen
    \/ ZipClose
    \/ Replace
    \/ MoveDone
    \/ Utime
    \/ DeleteDuplicates
    \/ MainNextEntry

\* one run of main over MaxEntries entries; every step that can be taken is
\* taken in the end (the threads and the main loop keep running)
SpecMain == InitMain /\ [][NextMain]_vars /\ WF_vars(NextMain)

\* ------------------------------------------- runs with since="auto" repeated
\* download_manga has returned after a failed chapter (lines 496-503) and is
\* called again on the same feed and destination directory
RunAgain ==
    /\ pc = "done"
    /\ raised \in {"RetryException", "RequestException"}
    /\ run < MaxRuns
    /\ run' = run + 1
    /\ ended' = Append(ended, [raised |-> raised, attempted |-> attempted,
                                length |-> length])
    /\ pc' = "start"
    /\ since_dt' = 0
    /\ index' = 1
    /\ chapter_number' = NoNumber
    /\ length' = 0
    /\ progress' = 0
    /\ base_url' = 0
    /\ chapter_hash' = 0
    /\ pages' = <<>>
    /\ attempts' = 0
    /\ queue' = <<>>
    /\ inflight' = {}
    /\ failed_pages' = <<>>
    /\ tmpdir' = NoDir
    /\ resolutions' = 0
    /\ chapter_pages' = <<>>
    /\ log' = <<>>
    /\ results' = {}
    /\ raised' = ""
    /\ unlinked' = {}
    /\ dest_before' = NoFiles
    /\ attempted' = <<>>
    /\ UNCHANGED <<inputs, dest_dir>>
    /\ UNCHANGED <<ratevars, numbers, cbzvars, reportvars>>

\* a feed of MaxChapters numbered chapters of one page each, in creation
\* order, with update times in any order, an empty destination directory and
\* since="auto"
InitAuto ==
    /\ chapters \in FeedsOf(MaxChapters, {1})
    /\ \A i \in DOMAIN chapters : chapters[i].chapter # NoNumber
    /\ since = SinceAuto
    /\ exclude = {}
    /\ net = {"ok", "noconn"}
    /\ crossDevice \in BOOLEAN
    /\ dest_dir = NoFiles
    /\ from_chapter = 0
    /\ source = "MangaDex"
    /\ mirror = OwnHost
    /\ report_net = {}
    /\ InitManga
    /\ InitDownload
    /\ clock = 0
    /\ InitRate
    /\ numbers = <<>>
    /\ InitCbzIdle
    /\ InitTelemetry

NextAuto ==
    \/ Start
    \/ SkipChapter
    \/ AdmitChapter
    \/ Resolve
    \/ FetchStart
    \/ FetchFinish
    \/ AttemptSucceeded
    \/ AttemptFailed
    \/ WriteComicInfo
    \/ ZipOpen
    \/ ZipClose
    \/ Replace
    \/ MoveDone
    \/ Utime
    \/ DeleteDuplicates
    \/ RunAgain

SpecAuto == InitAuto /\ [][NextAuto]_vars

\* ====================================================================== claims

\* the chapter of the feed an archive file name carries the id of
ChapterOf(f) == CHOOSE ch \in Range(chapters) : ch.id = f[2]

\* an archive an observer can open, with the manifest and, for every page of
\* the chapter, a file some fetch of that page wrote in full
HoldsChapter(archive, ch) ==
    /\ archive.complete
    /\ archive.info
    /\ \A p \in 1..ch.npages :
           \E n \in DOMAIN archive.entries :
               n[2] = p /\ archive.entries[n] # "partial"

\* the block of download_manga that runs with the yielded staging directory
InYield == pc \in {"yield", "zip", "zipping", "replace", "move", "utime"}

\* the pages whose fetch failed in attempt k
FailedIn(k) == {r.page : r \in {x \in results : x.attempt = k /\ future_failed(x.outcome)}}

C2_ThreeAttemptsThenRetryException ==
    /\ Len(log) <= MaxAttempts
    /\ (Len(log) = MaxAttempts /\ FailedIn(MaxAttempts) # {} /\ pc # "fetch")
           => (raised = "RetryException" /\ ~InYield /\ tmpdir = NoDir)

\* C3: attempt k+1 uses the target resolved after attempt k, a resolution
\* newer than the one attempt k used, and requests exactly the pages that
\* failed in attempt k; every fetch is of a page its attempt requested.
C3_RetryRequestsExactlyFailedPages ==
    /\ \A k \in 2..Len(log) :
           /\ log[k].submitted = FailedIn(k - 1)
           /\ log[k].target = k
           /\ log[k].target > log[k - 1].target
    /\ \A r \in results :
           /\ r.attempt \in 1..Len(log)
           /\ r.page \in log[r.attempt].submitted
           /\ r.target = log[r.attempt].target

\* C3 witness: of two pages one succeeded and one failed in the first
\* attempt, and the second attempt has fetched a page.
C3_Witness ==
    /\ Len(log) >= 2
    /\ Cardinality(log[1].submitted) = 2
    /\ Cardinality(log[2].submitted) = 1
    /\ \E r \in results : r.attempt = 2

\* C4: while the caller holds the yielded staging directory, every page of
\* the resolved chapter has a fetch that returned success.
C4_YieldOnlyWhenEveryPageSucceeded ==
    InYield =>
        \A p \in Range(chapter_pages) :
            \E r \in results : r.page = p /\ page_returns(r.outcome) = "True"

\* C4 witness: the directory is yielded for a chapter of MaxPages pages
\* after a retry.
C4_Witness ==
    /\ pc = "yield"
    /\ Len(chapter_pages) = MaxPages
    /\ Len(log) >= 2

\* C5 (as claimed): a fetch that returned failure leaves no file in the
\* staging directory, so the directory never holds a partially written page.
C5_FailedFetchLeavesNoFile ==
    \A n \in DOMAIN tmpdir.files : tmpdir.files[n] # "partial"

\* C6 (as claimed): a page whose response has a non-success status is in the
\* failure set of its attempt, and no error body is staged as a page.
C6_NonSuccessStatusIsFailure ==
    /\ \A n \in DOMAIN tmpdir.files : tmpdir.files[n] # "errbody"
    /\ \A r \in results :
           (r.outcome = "status" /\ r.attempt = Len(log) /\ pc = "fetch")
               => r.page \in Range(failed_pages)

\* C7 (as claimed): any two requests issued through _request are at least
\* the global interval apart, and any two to /at-home/server/ at least the
\* route interval apart, whatever the interleaving of the callers.
C7_RequestsSpacedByInterval ==
    \A r1, r2 \in issued :
        r1 # r2 =>
            /\ (r1.at - r2.at >= GlobalInterval \/ r2.at - r1.at >= GlobalInterval)
            /\ (r1.route = AtHome /\ r2.route = AtHome)
                   => (r1.at - r2.at >= RouteInterval \/ r2.at - r1.at >= RouteInterval)

\* C8: a chapter whose updatedAt is not strictly after the cutoff is skipped
\* (one progress update, no resolution); a chapter is admitted only when its
\* updatedAt is strictly greater than the cutoff.
C8_CutoffIsExclusive ==
    [][(pc = "loop" /\ chapters[index].updatedAt <= since_dt)
          => (pc' \in {"loop", "done"} /\ progress' = progress + 1
              /\ resolutions' = resolutions /\ dest_dir' = dest_dir)]_vars

\* C8 witness: the first chapter, numbered and updated exactly at a cutoff
\* that is not 0, was skipped and the loop is at the second chapter.
C8_Witness ==
    /\ Len(chapters) >= 2
    /\ pc = "loop"
    /\ index = 2
    /\ progress = 1
    /\ since_dt > 0
    /\ chapters[1].updatedAt = since_dt
    /\ chapters[1].chapter # NoNumber
    /\ dest_dir = NoFiles

\* the chapter numbers of a feed, in list order
ChapterNumbers(chs) == [i \in DOMAIN chs |-> chs[i].chapter]

\* C9 (as claimed): for the chapter list [null, null, "2", null] the first
\* two chapters get numbers in (1.8, 2.0), increasing, and the fourth a
\* number in (2.0, 2.9).
C9_InferenceAroundTwo ==
    (ChapterNumbers(chapters) = <<NoNumber, NoNumber, 20, NoNumber>> /\ Len(numbers) = 4)
        => /\ 18 < numbers[1]
           /\ numbers[1] < numbers[2]
           /\ numbers[2] < 20
           /\ 20 < numbers[4]
           /\ numbers[4] < 29

\* the chapters of the feed that got a synthesized number
Synthesized ==
    {i \in DOMAIN numbers : chapters[i].chapter = NoNumber /\ numbers[i] # NoNumber}

\* the chapters of the feed that carry a number float() accepts
Numbered == {i \in DOMAIN chapters : chapters[i].chapter \notin {NoNumber, NotANumber}}

\* C10 (as claimed): synthesized numbers never collide with each other or
\* with a numbered chapter, and each sorts strictly between the nearest
\* numbered chapters before and after it.
C10_SynthesizedNumbersNeverCollide ==
    Len(numbers) = Len(chapters) =>
        \A i \in Synthesized :
            /\ \A j \in Synthesized : j # i => numbers[j] # numbers[i]
            /\ \A j \in Numbered : chapters[j].chapter # numbers[i]
            /\ PreviousNumbered(chapters, i) \in Numbered
                   => chapters[PreviousNumbered(chapters, i)].chapter < numbers[i]
            /\ FollowingNumbered(chapters, i) \in Numbered
                   => numbers[i] < chapters[FollowingNumbered(chapters, i)].chapter

\* C11: a chapter whose archive name is already in the destination directory
\* with a modified time not before the chapter's updatedAt is skipped: the
\* loop moves on with no resolution, no page fetch and the directory as it was.
C11_DownloadedChapterIsSkipped ==
    [][(/\ pc = "loop"
        /\ Filename(GuessNumber(chapters, index), chapters[index].id) \in DOMAIN dest_dir
        /\ dest_dir[Filename(GuessNumber(chapters, index), chapters[index].id)].mtime
               >= chapters[index].updatedAt)
          => (/\ pc' \in {"loop", "done"}
              /\ progress' = progress + 1
              /\ resolutions' = resolutions
              /\ results' = results
              /\ inflight' = {}
              /\ dest_dir' = dest_dir)]_vars

\* C11 witness: the only chapter, updated after the cutoff, was skipped
\* because its archive is there with a modified time equal to its updatedAt.
C11_Witness ==
    /\ Len(chapters) = 1
    /\ pc = "done"
    /\ progress = 1
    /\ since_dt < chapters[1].updatedAt
    /\ chapters[1].chapter # NoNumber
    /\ Filename(chapters[1].chapter, 1) \in DOMAIN dest_dir
    /\ dest_dir[Filename(chapters[1].chapter, 1)].mtime = chapters[1].updatedAt
    /\ dest_dir[Filename(chapters[1].chapter, 1)].archive = PriorArchive(chapters[1])
    /\ resolutions = 0

\* C12: in a second run over the same feed and directory, after a run that
\* completed every chapter, no request resolves a chapter, no page is fetched
\* and the directory is not written; no archive carries the wall-clock time
\* of its write, each archive written has its chapter's updatedAt.
C12_SecondRunFetchesNothing ==
    [][run >= 2 =>
          /\ resolutions' = 0
          /\ results' = {}
          /\ inflight' = {}
          /\ dest_dir' = dest_dir
          /\ \A f \in DOMAIN dest_dir : dest_dir[f].mtime # Now]_vars

\* C12 witness: the second run is over; it skipped every chapter of a feed
\* of MaxChapters chapters, all updated after the cutoff, whose archives carry
\* their chapter's updatedAt, at least one of them written by the first run.
C12_Witness ==
    /\ run = 2
    /\ pc = "done"
    /\ Len(chapters) = MaxChapters
    /\ progress = Len(chapters)
    /\ \A i \in DOMAIN chapters :
           /\ since_dt < chapters[i].updatedAt
           /\ chapters[i].chapter # NoNumber
           /\ Filename(chapters[i].chapter, i) \in DOMAIN dest_dir
           /\ dest_dir[Filename(chapters[i].chapter, i)].mtime = chapters[i].updatedAt

\* C13: the step that ends a successful commit leaves the fresh archive as
\* the only file carrying the chapter's id, deletes every other file with
\* that id, and no step of the run removes or changes a file carrying the
\* id of another chapter.
C13_OnlyFreshArchiveOfChapterRemains ==
    [][/\ pc = "dedupe" =>
            /\ filepath \in DOMAIN dest_dir'
            /\ dest_dir'[filepath] = dest_dir[filepath]
            /\ dest_dir'[filepath].mtime = chapters[index].updatedAt
            /\ dest_dir'[filepath].archive.complete
            /\ \A g \in DOMAIN dest_dir' : g[2] = chapters[index].id => g = filepath
            /\ unlinked' \ unlinked = {g \in DOMAIN dest_dir \ {filepath} :
                                           g[2] = chapters[index].id}
       /\ pc \notin {"start", "done"} =>
            \A g \in DOMAIN dest_dir :
                g[2] # chapters[index].id
                    => (g \in DOMAIN dest_dir' /\ dest_dir'[g] = dest_dir[g])
       /\ pc \in {"start", "done"} => dest_dir' = dest_dir]_vars

\* C13 witness: a chapter was committed while an archive with its id was
\* in the directory under another name; that file was deleted and the fresh
\* archive is the only file with the chapter's id.
C13_Witness ==
    /\ pc \in {"loop", "done"}
    /\ raised = ""
    /\ results # {}
    /\ \E g \in unlinked :
           /\ g \notin DOMAIN dest_dir
           /\ Cardinality({f \in DOMAIN dest_dir : f[2] = g[2]}) = 1
           /\ \A f \in DOMAIN dest_dir :
                  f[2] = g[2] => /\ dest_dir[f].mtime = ChapterOf(f).updatedAt
                                 /\ f[1] = ChapterOf(f).chapter

\* C14: the staging directory exists only between its creation inside
\* download_chapter and the end of the caller's with block; wherever the
\* call is over (normal end, RetryException, RequestException, an exception
\* of create_cbz) the directory and everything in it is gone.
C14_StagingDirectoryNeverOutlivesCall ==
    /\ pc \in {"start", "loop", "resolve", "dedupe", "done"} => tmpdir = NoDir
    /\ raised # "" => (pc = "done" /\ tmpdir = NoDir)
    /\ tmpdir.exists => pc \in {"fetch", "yield", "zip", "zipping", "replace", "move", "utime"}
    /\ ~tmpdir.exists => (tmpdir.files = NoFiles /\ tmpdir.temp = <<>> /\ ~tmpdir.info)

\* C14 witness: create_cbz raised OSError after MaxPages pages, the
\* manifest and temp.cbz were in the staging directory; the call is over.
C14_Witness ==
    /\ pc = "done"
    /\ raised = "OSError"
    /\ Cardinality({r \in results : r.outcome = "ok"}) = MaxPages
    /\ tmpdir = NoDir

\* C15: a page fetch that ends by raising an exception that is no transport
\* failure puts its page in failed_pages and changes nothing else: the
\* coordinator stays in the attempt, nothing is raised, the other fetches
\* stay submitted or running; and when an attempt is over every page it
\* submitted has a recorded result.
C15_RaisedFetchIsAFailedPage ==
    [][/\ \A r \in results' \ results :
              r.outcome = "raise" =>
                  /\ failed_pages' = Append(failed_pages, r.page)
                  /\ pc' = "fetch"
                  /\ raised' = ""
                  /\ queue' = queue
                  /\ inflight' = inflight \ {[page |-> r.page, prefix |-> r.prefix]}
                  /\ tmpdir'.exists
       /\ (pc = "fetch" /\ (pc' # "fetch" \/ attempts' # attempts)) =>
              \A p \in log[attempts + 1].submitted :
                  \E r \in results : r.attempt = attempts + 1 /\ r.page = p]_vars

\* C15 witness: in the first attempt the fetch of one page raised and the
\* fetch of the other page succeeded; the second attempt, for the page that
\* raised alone, is running.
C15_Witness ==
    /\ pc = "fetch"
    /\ attempts = 1
    /\ Cardinality(log[1].submitted) = 2
    /\ \E r1, r2 \in results :
           /\ r1.attempt = 1 /\ r1.outcome = "raise"
           /\ r2.attempt = 1 /\ r2.outcome = "ok"
           /\ r1.page # r2.page
           /\ log[2].submitted = {r1.page}

\* C16: in each source, while a page fetch is submitted or running the
\* staging directory exists and the coordinator is inside the executor's
\* with block; outside it (re-resolved, retried, yielded, raised, directory
\* removed) no fetch is left, and every page of an earlier attempt has its
\* result.
C16_WorkersFinishBeforeCoordinatorGoesOn ==
    /\ (inflight # {} \/ queue # <<>>) =>
           /\ tmpdir.exists
           /\ pc \in {"fetch", "src_wait", "src_exit"}
    /\ ~tmpdir.exists => (inflight = {} /\ queue = <<>>)
    /\ \A k \in 1..(Len(log) - 1) :
           \A p \in log[k].submitted : \E r \in results : r.attempt = k /\ r.page = p
    /\ \A job \in inflight \cup Range(queue) :
           source = "MangaDex" => job.page \in log[Len(log)].submitted

\* C16 witness: a page fetch of WeebCentral raised, wait returned and the
\* exception is on its way out while another fetch is still running; the
\* staging directory is still there.
C16_Witness ==
    /\ source = "WeebCentral"
    /\ pc = "src_exit"
    /\ raised # ""
    /\ inflight # {}
    /\ \E r \in results : r.outcome = "raise"
    /\ tmpdir.exists

\* C17: never more than max_workers page fetches run, and those that run
\* are fetches the current attempt of the chapter at hand submitted; none is
\* submitted or running when the coordinator is anywhere but in that
\* attempt, and a step to the next chapter (or to the first one of a new
\* run) or into a resolution is taken only with the pool empty and no
\* staging directory left.
C17_BoundedPoolOneChapterAtATime ==
    /\ [](/\ Cardinality(inflight) <= max_workers
          /\ inflight \cup Range(queue) \subseteq Range(Submit(pages))
          /\ (pc # "fetch" => (inflight = {} /\ queue = <<>>))
          /\ (raised # "" => pc = "done"))
    /\ [][/\ index' # index =>
               /\ \/ pc \in {"loop", "dedupe"} /\ index' = index + 1
                  \/ pc = "done" /\ run' = run + 1
               /\ inflight = {} /\ queue = <<>> /\ tmpdir = NoDir
          /\ pc' = "resolve" =>
               /\ pc = "loop"
               /\ inflight = {} /\ queue = <<>> /\ tmpdir = NoDir]_vars

\* C17 witness: max_workers fetches of a chapter are running and a further
\* page of it waits for a free worker.
C17_Witness ==
    /\ pc = "fetch"
    /\ Cardinality(inflight) = max_workers
    /\ queue # <<>>
    /\ Len(pages) > max_workers

\* C18: what at_home_download_page returns and the file it leaves depend on
\* the outcome of the page request alone: a fetch whose body arrived returns
\* True and one whose request failed returns False whether its report
\* succeeded, got a non-success status, timed out, was skipped or was not
\* due, and nothing but an exception of the fetch itself is raised.
C18_ReportNeverChangesFetchResult ==
    \A p \in DOMAIN returned :
        /\ returned[p].outcome \in {"ok", "status"} => returned[p].value = "True"
        /\ returned[p].outcome \in {"noconn", "broken"} => returned[p].value = "False"
        /\ returned[p].value = "raise" => returned[p].outcome = "raise"
        /\ \A q \in DOMAIN returned :
               returned[q].outcome = returned[p].outcome
                   => returned[q].value = returned[p].value
        /\ returned[p].outcome = "ok"
               => /\ StagedName(p, p) \in DOMAIN tmpdir.files
                  /\ tmpdir.files[StagedName(p, p)] = "page"
        /\ returned[p].outcome \in {"noconn", "raise"}
               => StagedName(p, p) \notin DOMAIN tmpdir.files

\* C18 witness: one page was fetched and its report timed out, another page
\* was fetched and its report was skipped; both fetches returned True.
C18_Witness ==
    \E p, q \in DOMAIN returned :
        /\ returned[p].outcome = "ok"
        /\ returned[p].report = "timeout"
        /\ returned[p].value = "True"
        /\ returned[q].outcome = "ok"
        /\ returned[q].report = "skipped"
        /\ returned[q].value = "True"

\* C19 (as claimed): a successful report lowers failed_reports by one and a
\* failed report raises it by one, whatever its value, and a report is
\* skipped only when the value tested was above MAX_FAILED_REPORTS.
C19_SuccessfulReportNeverIncreasesCounter ==
    [][\A w \in Workers :
          /\ (workers[w].at = "write" /\ workers'[w].at = "return") =>
                 /\ workers[w].rep = "ok" => failed_reports' = failed_reports - 1
                 /\ workers[w].rep \in {"status", "timeout"}
                        => failed_reports' = failed_reports + 1
          /\ workers'[w].rep = "skipped" => workers'[w].seen > MAX_FAILED_REPORTS]_vars

\* C20: failed_reports always equals its value at the start plus the steps
\* the reports applied, for every interleaving of the workers; a worker
\* between its test and its store holds report_lock, and the value it
\* tested is still the value of failed_reports when it stores.
C20_CounterUpdatesAreAtomic ==
    /\ failed_reports = ledger
    /\ \A w \in Workers :
           /\ workers[w].at \in {"locked", "write"} => report_lock = w
           /\ workers[w].at = "write" => workers[w].seen = failed_reports
    /\ report_lock # 0 => workers[report_lock].at \in {"locked", "write"}

\* C20 witness: one worker is between its test and its store while another,
\* whose report was answered too, waits for the lock.
C20_Witness ==
    \E w1, w2 \in Workers :
        /\ workers[w1].at = "write"
        /\ workers[w1].rep = "ok"
        /\ workers[w1].seen = MAX_FAILED_REPORTS
        /\ workers[w2].at = "acquire"
        /\ workers[w2].rep = "status"

\* ------------------------------------------------------------------- C21
\* C21: every attempt of download_chapter builds its page urls from one
\* resolution: the mirror base address and the chapter hash of url_prefix
\* come from the same at_home_chapter response (the latest one).
C21_AttemptUsesOneResolution ==
    pc = "fetch" => url_prefix[1] = url_prefix[2]

\* ------------------------------------------------------------------- C22
\* C22: the document generate_comic_info writes never contains an empty
\* element: an entry whose value is None or the empty string produces no
\* element.
C22_NoEmptyElement ==
    \A k \in DOMAIN document : document[k].text # <<>>

\* ------------------------------------------------------------------- C23
\* the natural order of two page file names: by the zero-padded number,
\* then by the rest of the name
NaturalBefore(a, b) == a[1] < b[1] \/ (a[1] = b[1] /\ a[2] < b[2])

\* C23: the page files are written into the archive in the natural sort
\* order of their staged names, whatever order the directory listing has.
C23_PagesInNaturalOrder ==
    \A i, j \in DOMAIN written :
        (i < j /\ IsPageName(written[i]) /\ IsPageName(written[j]))
            => NaturalBefore(written[i], written[j])

\* ------------------------------------------------------------------- C24
\* C24: create_cbz called a second time with the same staging directory,
\* manifest and destination writes an archive with the entries of the first:
\* every name is written once, temp.cbz of the first call is neither listed
\* nor written, the archive about to replace the first one equals it, and
\* the archive left at the destination holds the manifest and every page.
C24_SecondCallWritesSameArchive ==
    run >= 2 =>
        /\ TempName \notin Range(listed) \cup Range(written)
        /\ \A i, j \in DOMAIN written : written[i] = written[j] => i = j
        /\ pc = "cbz_replace" => tmpdir.temp[1] = dest_dir[filepath].archive
        /\ pc = "cbz_done" =>
              dest_dir[filepath].archive = Archive(TRUE, TRUE, tmpdir.files)

\* a second call that wrote the manifest and MaxPages pages, across volumes
C24_Witness ==
    /\ run = 2
    /\ pc = "cbz_done"
    /\ crossDevice
    /\ Len(written) = MaxPages + 1
    /\ tmpdir.temp = <<>>

\* ------------------------------------------------------------------- C25
\* C25 as stated: once a filesystem error of create_cbz has left the
\* chapter's with block, temp.cbz (with its staging directory) is gone and
\* the destination directory holds what it held before the call.
C25_FailedCommitLeavesDestination ==
    raised = "OSError" => (tmpdir = NoDir /\ dest_dir = dest_before)

\* C25 amended: temp.cbz is gone, and the destination directory holds what
\* it held before the call unless the error came from the copy of the
\* cross-device fallback, which leaves a partly written file at dest_file
\* and every other file as it was.
C25_FailedCommitLeavesDestinationUnlessCopying ==
    raised = "OSError" =>
        /\ tmpdir = NoDir
        /\ \/ dest_dir = dest_before
           \/ /\ crossDevice
              /\ filepath \in DOMAIN dest_dir
              /\ ~dest_dir[filepath].archive.complete
              /\ \A f \in DOMAIN dest_before \ {filepath} :
                    f \in DOMAIN dest_dir /\ dest_dir[f] = dest_before[f]
              /\ DOMAIN dest_dir \subseteq DOMAIN dest_before \cup {filepath}

\* a commit over a stale archive of the chapter failed after its pages were
\* fetched, on one volume: the stale archive is still there
C25_Witness ==
    /\ raised = "OSError"
    /\ ~crossDevice
    /\ results # {}
    /\ filepath \in DOMAIN dest_before
    /\ dest_dir[filepath] = dest_before[filepath]
    /\ tmpdir = NoDir

\* ------------------------------------------------------------------- C26
\* no chapter of the feed carries a chapter number
NoChapterNumbered == \A i \in DOMAIN chapters : chapters[i].chapter = NoNumber

\* the positions of download_manga outside the download of a chapter
BetweenChapters == pc \in {"start", "loop", "done"}

C27_AttemptsAreSubsequenceOfFeed ==
    /\ \A k \in DOMAIN attempted : attempted[k] \in DOMAIN chapters
    /\ \A k, l \in DOMAIN attempted : k < l => attempted[k] < attempted[l]
    /\ ~BetweenChapters => (attempted # <<>> /\ attempted[Len(attempted)] = index)
    /\ pc = "loop" => progress = index - 1

\* every chapter of a feed of MaxChapters chapters was attempted, in order
C27_Witness ==
    /\ pc = "done"
    /\ raised = ""
    /\ attempted = [k \in 1..MaxChapters |-> k]
    /\ Len(chapters) = MaxChapters

\* ------------------------------------------------------------------- C28
\* the chapter has a scanlation-group or user relationship whose name or id,
\* case-folded, is the case-folded form of an entry of the exclusion list
MatchesExclusion(ch) ==
    \E r \in ch.relationships, e \in exclude :
        /\ r.type = "scanlation_group" \/ r.type = "user"
        /\ casefold(r.name) = casefold(e) \/ casefold(r.id) = casefold(e)

\* C28: a chapter that matches the exclusion list is skipped by the
\* exclusion rule and never downloaded; a chapter that does not match is
\* never skipped by the exclusion rule.
C28_ExcludedExactlyWhenMatching ==
    /\ pc = "loop" => (Decision(index) = "excluded" <=> MatchesExclusion(chapters[index]))
    /\ \A k \in DOMAIN attempted : ~MatchesExclusion(chapters[attempted[k]])

\* a chapter of an excluded user, named in another case in the list, was
\* skipped and nothing was downloaded
C28_Witness ==
    /\ exclude = {"BOB"}
    /\ \E r \in chapters[1].relationships : r.type = "user" /\ r.name = "Bob"
    /\ pc = "done"
    /\ progress = 1
    /\ attempted = <<>>
    /\ dest_dir = NoFiles

\* ------------------------------------------------------------------- C29
\* the chapter being processed resolves to an empty page list
ZeroPages == chapters[index].npages = 0

\* C29: download_chapter of a chapter with no pages makes one resolution,
\* submits and fetches nothing, finds no failed page (so it neither
\* re-resolves nor raises RetryException), and yields a staging directory
\* that exists and is empty.
C29_ZeroPagesSucceeds ==
    ZeroPages =>
        /\ resolutions <= 1
        /\ queue = <<>> /\ inflight = {} /\ results = {}
        /\ failed_pages = <<>>
        /\ raised # "RetryException"
        /\ pc = "fetch" => (resolutions = 1 /\ attempts = 0)
        /\ pc = "yield" =>
              /\ resolutions = 1
              /\ tmpdir.exists
              /\ tmpdir.files = NoFiles /\ ~tmpdir.info /\ tmpdir.temp = <<>>

\* the chapter without pages reached the yield
C29_Witness ==
    /\ ZeroPages
    /\ pc = "yield"
    /\ resolutions = 1
    /\ log = <<AttemptRecord(1, <<>>)>>
    /\ tmpdir.exists

\* ------------------------------------------------------------------- C30
\* C30: a chapter that ends in RetryException, a request error or a
\* filesystem error ends download_manga there, with no later chapter of the
\* series attempted, and main goes on: every run of main reaches the last
\* entry of cfg["manga"] and finishes its download_manga.
C30_RunGoesOnAfterFailedChapter ==
    /\ [](raised # "" =>
            /\ pc = "done"
            /\ attempted # <<>>
            /\ attempted[Len(attempted)] = index)
    /\ <>(entry = MaxEntries /\ pc = "done")

\* the first chapter of the first entry failed for good, the series was
\* given up with a chapter left, and the last entry was then processed
C30_Witness ==
    /\ entry = MaxEntries
    /\ ended[1].raised = "RetryException"
    /\ ended[1].attempted = <<1>>
    /\ ended[1].length = MaxChapters
    /\ pc = "done"
    /\ raised = ""
    /\ attempted = [k \in 1..MaxChapters |-> k]
    /\ DOMAIN dest_dir # {}

\* ------------------------------------------------------------------- C31
\* C31: MangaPlus.download_manga skips a chapter whose time is not strictly
\* after the cutoff: nothing is requested, staged or written for it.
C31_MangaPlusCutoffIsExclusive ==
    (source = "MangaPlus" /\ since # 0 /\ chapters[index].updatedAt <= since) =>
        /\ pc \in {"src_start", "done"}
        /\ tmpdir = NoDir
        /\ results = {}
        /\ dest_dir = NoFiles

\* ------------------------------------------------------------------- C32
\* C32: with MangaPlus and MangaSee, a chapter one of whose page fetches
\* returned failure or raised has no archive at the destination path.
C32_ArchiveOnlyOfCompleteChapter ==
    (source \in {"MangaPlus", "MangaSee"} /\ \E r \in results : r.outcome # "ok") =>
        filepath \notin DOMAIN dest_dir

\* ------------------------------------------------------------------- C33
\* C33: with one sequential caller, a request is issued only when the clock
\* is at least the global interval past last_requests["global"], a request
\* to /at-home/server/ only when it is also at least the route interval past
\* last_requests of the route; the end of every request, raised or not,
\* stores the clock under each billed key, and no stored time decreases.
C33_SequentialRequestsAreSpaced ==
    [][/\ (rpc[1] \in {"sleep", "sleep_athome"} /\ rpc'[1] # rpc[1]) =>
              /\ clock >= last_requests["global"] + GlobalInterval
              /\ rpc[1] = "sleep_athome" => clock >= last_requests[AtHome] + RouteInterval
       /\ (rpc[1] \in {"request", "raise"} /\ rpc'[1] = "idle") =>
              last_requests' = [last_requests EXCEPT !["global"] = clock]
       /\ (rpc[1] \in {"request_athome", "raise_athome"} /\ rpc'[1] = "idle") =>
              /\ last_requests'["global"] = clock
              /\ last_requests'[AtHome] = clock
       /\ \A k \in DOMAIN last_requests : last_requests'[k] >= last_requests[k]]_vars

\* C33 witness: the caller has issued three requests, two of them to
\* /at-home/server/, after a request that raised (the stored times are past 0
\* while the third request is in flight).
C33_Witness ==
    /\ Cardinality(issued) = 3
    /\ Cardinality({r \in issued : r.route = AtHome}) >= 2
    /\ rpc[1] = "raise_athome"
    /\ last_requests[AtHome] > 0

\* ------------------------------------------------------------------- C34
\* C34: when download_chapter yields, the prefix of every staged page file
\* is the page's position in the page list resolved first, also for a page
\* fetched in a retry, and no two staged files have the same prefix.
C34_PrefixIsOriginalPosition ==
    InYield =>
        /\ \A name \in DOMAIN tmpdir.files :
               IsPageName(name) => chapter_pages[name[1]] = name[2]
        /\ \A n1, n2 \in DOMAIN tmpdir.files :
               (IsPageName(n1) /\ IsPageName(n2) /\ n1[1] = n2[1]) => n1 = n2

\* ------------------------------------------------------------------- C35
\* C35: a call of download_chapter makes at most 3 resolution requests, and
\* each is used by a fetch attempt: a call that ended with RetryException
\* made as many resolution requests as attempts.
C35_NoResolutionAfterLastAttempt ==
    /\ resolutions <= MaxAttempts
    /\ raised = "RetryException" => resolutions = Len(log)

\* ------------------------------------------------------------------- C36
\* a chapter download_manga is to fetch whenever no up-to-date archive of it
\* is in the directory: not external and with a number
Wanted(i) == ~chapters[i].externalUrl /\ GuessNumber(chapters, i) # NoNumber

\* the directory holds an archive of chapter i not older than its update
UpToDate(i) ==
    LET name == Filename(GuessNumber(chapters, i), chapters[i].id)
    IN  name \in DOMAIN dest_dir /\ dest_dir[name].mtime >= chapters[i].updatedAt

\* C36: with since="auto", when a run stopped at a failed chapter after it
\* had committed others, a later run over the same feed that ends without a
\* failure leaves an up-to-date archive of every chapter, the failed one
\* included, whatever the order of the update times.
C36_NoChapterLostAcrossRuns ==
    (/\ since = SinceAuto
     /\ ended # <<>>
     /\ Len(ended[1].attempted) >= 2
     /\ pc = "done"
     /\ raised = "")
        => \A i \in DOMAIN chapters : Wanted(i) => UpToDate(i)

\* ------------------------------------------------------------------- C37
\* the length is announced before any progress update, and every chapter the
\* loop has finished with, whatever its outcome, has brought one update of 1
ProgressCountsChapters ==
    /\ progress > 0 => length = Len(chapters)
    /\ pc = "start" => progress = 0
    /\ (pc = "loop" \/ ~BetweenChapters) => (length = Len(chapters) /\ progress = index - 1)

\* C37 (as claimed): the length is announced before any progress update,
\* there is one update of 1 per chapter processed, and when download_manga
\* has returned the sum of the updates is the announced length.
C37_ProgressSumEqualsLength ==
    /\ ProgressCountsChapters
    /\ (pc = "done" /\ raised \in {"", "RetryException", "RequestException"})
           => progress = length

\* C37 (amended): the same, the sum being the announced length when
\* download_manga has returned without a failed chapter, and the number of
\* chapters up to the failed one when it stopped at a failed chapter.
C37_ProgressSumIsChaptersProcessed ==
    /\ ProgressCountsChapters
    /\ (pc = "done" /\ raised = "") => progress = length
    /\ (pc = "done" /\ raised # "") => (progress = index /\ progress <= length)

\* C37 witness: download_manga has returned at the first chapter of two,
\* which ended with RetryException, after one progress update.
C37_Witness ==
    /\ pc = "done"
    /\ raised = "RetryException"
    /\ length = 2
    /\ progress = 1

\* ------------------------------------------------------------------- C38
\* C38: once a report has been skipped because failed_reports was above
\* MAX_FAILED_REPORTS, failed_reports no longer changes and every report
\* tested later is skipped too, for every interleaving of the workers.
C38_SuppressionIsLatch ==
    [][((\E w \in Workers : workers[w].rep = "skipped")
            \/ (\E p \in DOMAIN returned : returned[p].report = "skipped"))
          => /\ failed_reports' = failed_reports
             /\ \A w \in Workers :
                    (workers[w].at = "report" /\ workers'[w].at # "report")
                        => workers'[w].rep = "skipped"]_vars

\* ------------------------------------------------------------------- C39
\* C39: in every reachable state, for every interleaving of up to
\* max_workers concurrent reports, failed_reports is at least 0 and at most
\* MAX_FAILED_REPORTS + max_workers.
C39_CounterIsBounded ==
    /\ 0 <= failed_reports
    /\ failed_reports <= MAX_FAILED_REPORTS + max_workers

\* C39 witness: max_workers reports that all passed the test at the
\* threshold have failed, and the counter stands at its upper bound.
C39_Witness ==
    /\ failed_reports = MAX_FAILED_REPORTS + max_workers
    /\ \A w \in Workers : workers[w].at = "return" /\ workers[w].seen >= MAX_FAILED_REPORTS

\* ------------------------------------------------------------------- C40
\* C40: when the download of a chapter has failed with RetryException or a
\* request error, the destination directory is as it was before that
\* chapter: no archive created or replaced, no modified time changed, no
\* duplicate deleted.
C40_FailedDownloadLeavesDestination ==
    raised \in {"RetryException", "RequestException"} =>
        /\ pc = "done"
        /\ dest_dir = dest_before
        /\ \A f \in unlinked : f \notin DOMAIN dest_before

\* C40 witness: the chapter has a stale archive under its present name, its
\* download ended with RetryException, and the stale archive is there with
\* its old modified time.
C40_Witness ==
    /\ raised = "RetryException"
    /\ filepath \in DOMAIN dest_dir
    /\ dest_dir[filepath].mtime < chapters[index].updatedAt
====
